---------------------------- MODULE Spec2Model ----------------------------
(***************************************************************************)
(* A model of the XML-RPC codec of go-rtorrent (src/xmlrpc/client.go):     *)
(* the encoder (WriteXML, Marshal), the recursive-descent decoder built    *)
(* on a token reader with one token of pushback (state.token, parseValue,  *)
(* Unmarshal), and the error helpers (Errorf2, ErrEq).                     *)
(*                                                                         *)
(* Text is modelled character by character (a string is a sequence of      *)
(* one-character strings), so that escaping, number formatting and         *)
(* parsing, and base64 are conversions that can go wrong.  The byte        *)
(* stream between encoder and decoder is modelled as the sequence of XML   *)
(* tokens it spells: every tag the encoder writes is a literal, so the     *)
(* token sequence and the bytes determine each other; character data      *)
(* keeps its raw (escaped) spelling and is decoded when it is read.        *)
(*                                                                         *)
(* Go integers are 64 bits wide and TLC's are 32, so an integer is         *)
(* modelled exactly, as a sign and the decimal digits of its magnitude.    *)
(***************************************************************************)
EXTENDS Integers, Sequences, FiniteSets, TLC

(***************************************************************************)
(* Sequences helpers                                                       *)
(***************************************************************************)
RECURSIVE Concat(_)
Concat(ss) == IF ss = <<>> THEN <<>> ELSE Head(ss) \o Concat(Tail(ss))

RECURSIVE SeqsUpTo(_, _)
SeqsUpTo(S, n) ==
    IF n = 0 THEN {<<>>}
    ELSE LET shorter == SeqsUpTo(S, n - 1)
         IN  shorter \cup {Append(s, c) : s \in shorter, c \in S}

IsPrefix(p, s) == Len(p) <= Len(s) /\ SubSeq(s, 1, Len(p)) = p

Drop(s, n) == SubSeq(s, n + 1, Len(s))

\* v under the name the operator F gives it: the value of a step of the
\* code, computed once (as the one element of a set) and used by the steps
\* that follow
With(v, F(_)) == CHOOSE y \in {F(x) : x \in {v}} : TRUE

\* the characters of a TLA+ string literal cannot be taken apart, so text is
\* written as tuples of one-character strings
CR == "\r"
LF == "\n"
TAB == "\t"
NUL == "NUL"   \* stands for the byte 0x00, which no TLA+ string can spell

(***************************************************************************)
(* xmlEscape                                                               *)
(***************************************************************************)
xmlSpecial(c) ==
    CASE c = "<"  -> <<"&", "l", "t", ";">>
      [] c = ">"  -> <<"&", "g", "t", ";">>
      [] c = "\"" -> <<"&", "q", "u", "o", "t", ";">>
      [] c = "'"  -> <<"&", "a", "p", "o", "s", ";">>
      [] c = "&"  -> <<"&", "a", "m", "p", ";">>
      [] OTHER    -> <<>>

IsXmlSpecial(c) == c \in {"<", ">", "\"", "'", "&"}

RECURSIVE xmlEscape(_)

\* an escape that copies the apostrophe
xmlEscapeButApos(s) ==
    IF s = <<>> THEN <<>>
    ELSE LET c == Head(s)
         IN  (IF IsXmlSpecial(c) /\ c # "'" THEN xmlSpecial(c) ELSE <<c>>) \o xmlEscape(Tail(s))

xmlEscape(s) ==
    IF s = <<>> THEN <<>>
    ELSE LET c == Head(s)
         IN  (IF IsXmlSpecial(c) THEN xmlSpecial(c) ELSE <<c>>) \o xmlEscape(Tail(s))

(***************************************************************************)
(* encoding/xml: what the decoder makes of raw character data.  An entity  *)
(* reference is replaced, a bare CR or a CR LF becomes one LF, and a       *)
(* character outside XML's character range, a bare '<' or an unknown       *)
(* entity is a syntax error.                                               *)
(***************************************************************************)
Entities ==
    { [ent |-> <<"&", "l", "t", ";">>, ch |-> "<"],
      [ent |-> <<"&", "g", "t", ";">>, ch |-> ">"],
      [ent |-> <<"&", "q", "u", "o", "t", ";">>, ch |-> "\""],
      [ent |-> <<"&", "a", "p", "o", "s", ";">>, ch |-> "'"],
      [ent |-> <<"&", "a", "m", "p", ";">>, ch |-> "&"] }

InCharacterRange(c) == c # NUL

\* [ok, s]: the decoded text, or ok = FALSE for a syntax error
RECURSIVE XmlText(_)
XmlText(raw) ==
    IF raw = <<>> THEN [ok |-> TRUE, s |-> <<>>]
    ELSE LET c == Head(raw) IN
         IF c = "<" \/ ~InCharacterRange(c) THEN [ok |-> FALSE, s |-> <<>>]
         ELSE IF c = "&" THEN
              LET hits == {e \in Entities : IsPrefix(e.ent, raw)} IN
              IF hits = {} THEN [ok |-> FALSE, s |-> <<>>]
              ELSE LET e == CHOOSE h \in hits : TRUE
                       rest == XmlText(Drop(raw, Len(e.ent)))
                   IN  [ok |-> rest.ok, s |-> <<e.ch>> \o rest.s]
         ELSE IF c = CR THEN
              LET after == IF Len(raw) > 1 /\ raw[2] = LF THEN Drop(raw, 2) ELSE Tail(raw)
                  rest == XmlText(after)
              IN  [ok |-> rest.ok, s |-> <<LF>> \o rest.s]
         ELSE LET rest == XmlText(Tail(raw))
              IN  [ok |-> rest.ok, s |-> <<c>> \o rest.s]

IsSpace(c) == c \in {" ", LF, TAB, CR}

AllSpace(s) == \A i \in 1..Len(s) : IsSpace(s[i])

(***************************************************************************)
(* Integers.  A Go integer is [neg, mag]: its sign and the decimal digits  *)
(* of its magnitude, most significant first, without leading zeros (zero   *)
(* is the empty magnitude and is never negative).                          *)
(***************************************************************************)
DigitChars == <<"0", "1", "2", "3", "4", "5", "6", "7", "8", "9">>

IsDigit(c) == \E d \in 1..10 : DigitChars[d] = c

DigitOf(c) == (CHOOSE d \in 1..10 : DigitChars[d] = c) - 1

MkInt(neg, mag) == [neg |-> neg /\ mag # <<>>, mag |-> mag]

Zero == MkInt(FALSE, <<>>)

RECURSIVE StripZeros(_)
StripZeros(ds) == IF ds # <<>> /\ Head(ds) = 0 THEN StripZeros(Tail(ds)) ELSE ds

\* magnitudes compared as numbers: by length, then digit by digit
RECURSIVE LexLeq(_, _)
LexLeq(a, b) ==
    IF a = <<>> THEN TRUE
    ELSE IF Head(a) # Head(b) THEN Head(a) < Head(b)
    ELSE LexLeq(Tail(a), Tail(b))

MagLeq(a, b) == Len(a) < Len(b) \/ (Len(a) = Len(b) /\ LexLeq(a, b))

\* 2^(bitSize-1), the magnitude of the least value of a signed bitSize-bit integer
PowMag(bitSize) ==
    CASE bitSize = 32 -> <<2, 1, 4, 7, 4, 8, 3, 6, 4, 8>>
      [] bitSize = 64 -> <<9, 2, 2, 3, 3, 7, 2, 0, 3, 6, 8, 5, 4, 7, 7, 5, 8, 0, 8>>

\* a conversion without the range check
InRangeAny(i, bitSize) == TRUE

InRange(i, bitSize) ==
    IF i.neg THEN MagLeq(i.mag, PowMag(bitSize))
    ELSE MagLeq(i.mag, PowMag(bitSize)) /\ i.mag # PowMag(bitSize)

MaxOf(bitSize) ==
    LET p == PowMag(bitSize)
    IN  MkInt(FALSE, [p EXCEPT ![Len(p)] = p[Len(p)] - 1])

MinOf(bitSize) == MkInt(TRUE, PowMag(bitSize))

\* fmt's %v of an integer: the decimal digits, with a minus sign when negative
FormatInt(i) ==
    (IF i.neg THEN <<"-">> ELSE <<>>)
    \o (IF i.mag = <<>> THEN <<"0">> ELSE [d \in 1..Len(i.mag) |-> DigitChars[i.mag[d] + 1]])

(***************************************************************************)
(* Errors.  An error made by errors.New or by a library is [wrap |-> FALSE,  *)
(* id]; Errorf2 makes a wrapper around a main error.                       *)
(***************************************************************************)
NilErr == [wrap |-> FALSE, id |-> "nil"]

NewErr(id) == [wrap |-> FALSE, id |-> id]

errNotStartElement == NewErr("not start element")
errNameMismatch == NewErr("not the required token")
errNotEndElement == NewErr("not end element")
ErrUnsupported == NewErr("Unsupported type")

\* errors of the libraries the codec calls
ErrSyntaxXML == NewErr("xml: syntax error")
ErrEOF == NewErr("EOF")
ErrNumSyntax == NewErr("strconv: invalid syntax")
ErrNumRange == NewErr("strconv: value out of range")
ErrTime == NewErr("time: cannot parse")
ErrBase64 == NewErr("base64: illegal data")
ErrWrite == NewErr("write failed")
\* the error of a reader that fails
ErrIO == NewErr("read failed")

Errorf2(err, message) == [wrap |-> TRUE, id |-> message, main |-> err]

MainOf(a) == IF a.wrap THEN a.main ELSE a

\* ErrEq without the look into an errorStruct
ErrEqOutside(a, b) == a = b

ErrEq(a, b) == MainOf(a) = MainOf(b)

(***************************************************************************)
(* strconv                                                                 *)
(***************************************************************************)
\* ParseInt(s, 10, bitSize): [v, e]
ParseInt(s, bitSize) ==
    IF s = <<>> THEN [v |-> Zero, e |-> ErrNumSyntax]
    ELSE LET signed == Head(s) \in {"+", "-"}
             neg    == Head(s) = "-"
             ds     == IF signed THEN Tail(s) ELSE s
         IN  IF ds = <<>> \/ \E i \in 1..Len(ds) : ~IsDigit(ds[i])
             THEN [v |-> Zero, e |-> ErrNumSyntax]
             ELSE LET i == MkInt(neg, StripZeros([d \in 1..Len(ds) |-> DigitOf(ds[d])]))
                  IN  IF InRange(i, bitSize) THEN [v |-> i, e |-> NilErr]
                      ELSE [v |-> IF neg THEN MinOf(bitSize) ELSE MaxOf(bitSize),
                            e |-> ErrNumRange]

TrueTexts ==
    { <<"1">>, <<"t">>, <<"T">>, <<"T", "R", "U", "E">>, <<"t", "r", "u", "e">>,
      <<"T", "r", "u", "e">> }

FalseTexts ==
    { <<"0">>, <<"f">>, <<"F">>, <<"F", "A", "L", "S", "E">>, <<"f", "a", "l", "s", "e">>,
      <<"F", "a", "l", "s", "e">> }

ParseBool(s) ==
    IF s \in TrueTexts THEN [v |-> TRUE, e |-> NilErr]
    ELSE IF s \in FalseTexts THEN [v |-> FALSE, e |-> NilErr]
    ELSE [v |-> FALSE, e |-> ErrNumSyntax]

\* fmt's %v of a bool
FormatBool(b) == IF b THEN <<"t", "r", "u", "e">> ELSE <<"f", "a", "l", "s", "e">>

\* ParseFloat, for plain decimal notation only: [sign] digits [. digits] with a
\* digit somewhere; the value is kept as the text that was accepted
ParseFloat(s) ==
    LET signed == s # <<>> /\ Head(s) \in {"+", "-"}
        body   == IF signed THEN Tail(s) ELSE s
        dots   == {i \in 1..Len(body) : body[i] = "."}
        ok     == /\ Cardinality(dots) <= 1
                  /\ \A i \in 1..Len(body) : IsDigit(body[i]) \/ body[i] = "."
                  /\ \E i \in 1..Len(body) : IsDigit(body[i])
    IN  IF ok THEN [v |-> s, e |-> NilErr] ELSE [v |-> <<>>, e |-> ErrNumSyntax]

(***************************************************************************)
(* encoding/base64, StdEncoding: bytes are 0..255                          *)
(***************************************************************************)
B64Chars ==
    <<"A", "B", "C", "D", "E", "F", "G", "H", "I", "J", "K", "L", "M", "N", "O", "P",
       "Q", "R", "S", "T", "U", "V", "W", "X", "Y", "Z", "a", "b", "c", "d", "e", "f",
       "g", "h", "i", "j", "k", "l", "m", "n", "o", "p", "q", "r", "s", "t", "u", "v",
       "w", "x", "y", "z", "0", "1", "2", "3", "4", "5", "6", "7", "8", "9", "+", "/" >>

IsB64(c) == \E i \in 1..64 : B64Chars[i] = c

B64Val(c) == (CHOOSE i \in 1..64 : B64Chars[i] = c) - 1

RECURSIVE B64Encode(_)
B64Encode(b) ==
    IF b = <<>> THEN <<>>
    ELSE IF Len(b) = 1 THEN
         << B64Chars[(b[1] \div 4) + 1], B64Chars[((b[1] % 4) * 16) + 1], "=", "=" >>
    ELSE IF Len(b) = 2 THEN
         << B64Chars[(b[1] \div 4) + 1],
            B64Chars[((b[1] % 4) * 16 + (b[2] \div 16)) + 1],
            B64Chars[((b[2] % 16) * 4) + 1], "=" >>
    ELSE << B64Chars[(b[1] \div 4) + 1],
            B64Chars[((b[1] % 4) * 16 + (b[2] \div 16)) + 1],
            B64Chars[((b[2] % 16) * 4 + (b[3] \div 64)) + 1],
            B64Chars[(b[3] % 64) + 1] >> \o B64Encode(Drop(b, 3))

\* the bytes of one quantum of four characters; "=" only as the padding of the
\* last quantum
B64Quantum(q, last) ==
    LET n == IF last /\ q[4] = "=" THEN (IF q[3] = "=" THEN 2 ELSE 3) ELSE 4
        ok == \A i \in 1..n : IsB64(q[i])
        v(i) == B64Val(q[i])
    IN  IF ~ok THEN [ok |-> FALSE, b |-> <<>>]
        ELSE [ok |-> TRUE,
              b  |-> IF n = 2 THEN << v(1) * 4 + (v(2) \div 16) >>
                     ELSE IF n = 3 THEN << v(1) * 4 + (v(2) \div 16),
                                           (v(2) % 16) * 16 + (v(3) \div 4) >>
                     ELSE << v(1) * 4 + (v(2) \div 16),
                             (v(2) % 16) * 16 + (v(3) \div 4),
                             (v(3) % 4) * 64 + v(4) >>]

RECURSIVE B64Quanta(_)
B64Quanta(s) ==
    IF s = <<>> THEN [ok |-> TRUE, b |-> <<>>]
    ELSE LET q    == B64Quantum(SubSeq(s, 1, 4), Len(s) = 4)
             rest == B64Quanta(Drop(s, 4))
         IN  [ok |-> q.ok /\ rest.ok, b |-> q.b \o rest.b]

\* DecodeString: line breaks are ignored, the rest must be whole quanta
B64Decode(s) ==
    LET t == SelectSeq(s, LAMBDA c : c \notin {CR, LF})
    IN  IF Len(t) % 4 # 0 THEN [v |-> <<>>, e |-> ErrBase64]
        ELSE LET r == B64Quanta(t)
             IN  IF r.ok THEN [v |-> r.b, e |-> NilErr] ELSE [v |-> <<>>, e |-> ErrBase64]

(***************************************************************************)
(* time.Parse and Time.Format for the four layouts of the codec.  A layout *)
(* is a sequence of fields ("Y" four digits of year, "M", "D", "h", "m",   *)
(* "s" two digits each, "Z:" an offset as -07:00, "Z" an offset as -0700)  *)
(* and literal characters.  A time is its calendar fields and its offset   *)
(* from UTC in minutes.                                                    *)
(***************************************************************************)
FullXMLRpcTime ==
    <<"Y", "-", "M", "-", "D", "T", "h", ":", "m", ":", "s", "Z:">>
LocalXMLRpcTime ==
    <<"Y", "-", "M", "-", "D", "T", "h", ":", "m", ":", "s">>
DenseXMLRpcTime ==
    <<"Y", "M", "D", "T", "h", ":", "m", ":", "s">>
DummyXMLRpcTime ==
    <<"Y", "M", "D", "T", "h", ":", "m", ":", "s", "Z">>

ZeroTime == [Y |-> 1, M |-> 1, D |-> 1, h |-> 0, m |-> 0, s |-> 0, off |-> 0]

AllDigits(s) == \A i \in 1..Len(s) : IsDigit(s[i])

RECURSIVE NumOf(_)
NumOf(ds) == IF ds = <<>> THEN 0 ELSE NumOf(SubSeq(ds, 1, Len(ds) - 1)) * 10 + DigitOf(ds[Len(ds)])

DaysIn(M, Y) ==
    IF M = 2 THEN (IF Y % 4 = 0 /\ (Y % 100 # 0 \/ Y % 400 = 0) THEN 29 ELSE 28)
    ELSE IF M \in {4, 6, 9, 11} THEN 30 ELSE 31

\* the digits of a fractional second that follows the seconds though the layout
\* has none are swallowed
RECURSIVE SkipDigits(_)
SkipDigits(s) == IF s # <<>> /\ IsDigit(Head(s)) THEN SkipDigits(Tail(s)) ELSE s

SkipFraction(s) ==
    IF Len(s) >= 2 /\ s[1] \in {".", ","} /\ IsDigit(s[2]) THEN SkipDigits(Tail(s)) ELSE s

FieldWidth(it) == IF it = "Y" THEN 4 ELSE 2

RECURSIVE ParseLayout(_, _, _)
ParseLayout(layout, s, t) ==
    IF layout = <<>> THEN [ok |-> s = <<>> /\ t.D <= DaysIn(t.M, t.Y), t |-> t]
    ELSE LET it == Head(layout)
             bad == [ok |-> FALSE, t |-> ZeroTime]
         IN  IF it \in {"Y", "M", "D", "h", "m", "s"} THEN
                 LET w == FieldWidth(it) IN
                 IF Len(s) < w \/ ~AllDigits(SubSeq(s, 1, w)) THEN bad
                 ELSE LET n == NumOf(SubSeq(s, 1, w))
                          rest == Drop(s, w)
                          inRange == CASE it = "Y" -> TRUE
                                       [] it = "M" -> n \in 1..12
                                       [] it = "D" -> n \in 1..31
                                       [] it = "h" -> n < 24
                                       [] OTHER    -> n < 60
                      IN  IF ~inRange THEN bad
                          ELSE ParseLayout(Tail(layout),
                                           IF it = "s" THEN SkipFraction(rest) ELSE rest,
                                           [t EXCEPT ![it] = n])
             ELSE IF it \in {"Z:", "Z"} THEN
                 LET w == IF it = "Z:" THEN 6 ELSE 5
                     z == SubSeq(s, 1, w)
                     ds == IF it = "Z:" THEN <<z[2], z[3], z[5], z[6]>>
                           ELSE <<z[2], z[3], z[4], z[5]>>
                 IN  IF Len(s) < w THEN bad
                     ELSE IF z[1] \notin {"+", "-"} \/ (it = "Z:" /\ z[4] # ":") \/ ~AllDigits(ds)
                     THEN bad
                     ELSE LET mins == NumOf(SubSeq(ds, 1, 2)) * 60 + NumOf(SubSeq(ds, 3, 4))
                          IN  ParseLayout(Tail(layout), Drop(s, w),
                                          [t EXCEPT !.off = IF z[1] = "-" THEN -mins ELSE mins])
             ELSE IF s # <<>> /\ Head(s) = it THEN ParseLayout(Tail(layout), Tail(s), t)
             ELSE bad

TimeParse(layout, s) ==
    LET r == ParseLayout(layout, s, ZeroTime)
    IN  IF r.ok THEN [v |-> r.t, e |-> NilErr] ELSE [v |-> ZeroTime, e |-> ErrTime]

Pad(n, w) ==
    [i \in 1..w |-> DigitChars[((n \div (IF i = w THEN 1 ELSE IF i = w - 1 THEN 10
                                         ELSE IF i = w - 2 THEN 100 ELSE 1000)) % 10) + 1]]

\* Time.Format(FullXMLRpcTime)
FormatFullTime(t) ==
    LET a == IF t.off < 0 THEN -t.off ELSE t.off
    IN  Pad(t.Y, 4) \o <<"-">> \o Pad(t.M, 2) \o <<"-">> \o Pad(t.D, 2) \o <<"T">>
        \o Pad(t.h, 2) \o <<":">> \o Pad(t.m, 2) \o <<":">> \o Pad(t.s, 2)
        \o <<(IF t.off < 0 THEN "-" ELSE "+")>> \o Pad(a \div 60, 2) \o <<":">> \o Pad(a % 60, 2)

(***************************************************************************)
(* The token stream.  A document is a sequence of tokens: start and end    *)
(* elements (n is the element's name), character data (s is its raw        *)
(* spelling), comments, and tags left unfinished.                          *)
(***************************************************************************)
StartTok(n) == [k |-> "start", n |-> n]
EndTok(n) == [k |-> "end", n |-> n]
TextTok(s) == [k |-> "text", s |-> s]
CommentTok == [k |-> "comment"]
\* a tag that a failed write cut short: v is what was written of it
CutTok(s) == [k |-> "cut", s |-> s]
NoTok == [k |-> "none"]

\* <n>text</n>, the text as it is spelled on the wire; no character data token
\* stands for an empty text
Elem(n, raw) == <<StartTok(n)>> \o (IF raw = <<>> THEN <<>> ELSE <<TextTok(raw)>>) \o <<EndTok(n)>>

(***************************************************************************)
(* The parser: the state struct, with the xml.Decoder it reads from.  pos  *)
(* is the decoder's place in the document, stk its stack of open elements, *)
(* derr the error it keeps once it has failed, rerr the error its reader   *)
(* gives at the end of the data; last is the pushback slot.  dropped,     *)
(* reads and hard are history: whether content was passed over, how many   *)
(* tokens were taken from the decoder, and the names state.token required  *)
(* when it gave errNameMismatch or errNotEndElement, whether a read of the *)
(* stream has failed with another error than io.EOF, and how many reads of *)
(* the stream were made after that.  trace is the history of the calls of  *)
(* state.token, one entry for each as Called makes it, and lost tells      *)
(* whether a token in the pushback slot was overwritten or cleared without *)
(* having been taken.  vals is the history of the calls of parseValue that *)
(* took a start element, one entry for each as Parsed makes it, and broke   *)
(* tells whether the loop over the <param> elements was left because       *)
(* parseValue failed.                                                      *)
(***************************************************************************)
newParser(rerr) ==
    [pos |-> 1, stk |-> <<>>, derr |-> NilErr, rerr |-> rerr, last |-> NoTok,
     dropped |-> FALSE, reads |-> 0, hard |-> {}, failed |-> FALSE, late |-> 0,
     trace |-> <<>>, lost |-> FALSE, vals |-> <<>>, broke |-> FALSE]

\* a call of state.token(typ, name) as the history keeps it: had is what the
\* pushback slot held when the call began, reads the number of tokens the
\* Reading loop took from the decoder, t the token the call came to, e its
\* error and left what the slot holds when the call returns
Called(typ, name, had, reads, t, e, left) ==
    [typ |-> typ, name |-> name, had |-> had, reads |-> reads, t |-> t, e |-> e, left |-> left]

\* a call of parseValue that took the start element se, as the history keeps
\* it: d0 is the number of open elements and had the pushback slot when the
\* call began, d1, pos and last the number of open elements, the place of the
\* decoder in the document and the pushback slot when it returns e
Parsed(se, d0, had, st, e) ==
    [se |-> se, d0 |-> d0, had |-> had, d1 |-> Len(st.stk), pos |-> st.pos,
     last |-> st.last, e |-> e]

\* a decoder that takes an end element of any name for the end of the element
\* that is open
DecoderTokenLax(doc, st) ==
    LET fail(err) == [st |-> [st EXCEPT !.derr = err], t |-> NoTok, e |-> err]
        \* a read of the stream at the end of the data
        read(err) ==
            [st |-> [st EXCEPT !.derr = err,
                               !.failed = @ \/ st.rerr # ErrEOF,
                               !.late = IF st.failed THEN @ + 1 ELSE @],
             t |-> NoTok, e |-> err]
        take(tok, stk) ==
            [st |-> [st EXCEPT !.pos = @ + 1, !.stk = stk, !.reads = @ + 1],
             t |-> tok, e |-> NilErr]
    IN  IF st.derr # NilErr THEN fail(st.derr)
        ELSE IF st.pos > Len(doc) THEN
             read(IF st.rerr = ErrEOF /\ st.stk # <<>> THEN ErrSyntaxXML ELSE st.rerr)
        ELSE LET tok == doc[st.pos] IN
             CASE tok.k = "start" -> take(tok, Append(st.stk, tok.n))
               [] tok.k = "end" ->
                    IF st.stk = <<>> THEN fail(ErrSyntaxXML)
                    ELSE take(tok, SubSeq(st.stk, 1, Len(st.stk) - 1))
               [] tok.k = "text" ->
                    LET x == XmlText(tok.s)
                    IN  IF x.ok THEN take(TextTok(x.s), st.stk) ELSE fail(ErrSyntaxXML)
               \* markup that is not complete: the reader's error when the data
               \* end in it and the reader fails, a syntax error otherwise
               [] tok.k = "cut" ->
                    IF st.pos = Len(doc) /\ st.rerr # ErrEOF THEN read(st.rerr)
                    ELSE fail(ErrSyntaxXML)
               [] OTHER -> take(tok, st.stk)

\* a decoder that reads the stream again after it has failed
DecoderTokenAgain(doc, st) ==
    LET fail(err) == [st |-> [st EXCEPT !.derr = err], t |-> NoTok, e |-> err]
        read(err) ==
            [st |-> [st EXCEPT !.derr = err,
                               !.failed = @ \/ st.rerr # ErrEOF,
                               !.late = IF st.failed THEN @ + 1 ELSE @],
             t |-> NoTok, e |-> err]
        take(tok, stk) ==
            [st |-> [st EXCEPT !.pos = @ + 1, !.stk = stk, !.reads = @ + 1],
             t |-> tok, e |-> NilErr]
    IN  IF st.pos > Len(doc) THEN
             read(IF st.rerr = ErrEOF /\ st.stk # <<>> THEN ErrSyntaxXML ELSE st.rerr)
        ELSE LET tok == doc[st.pos] IN
             CASE tok.k = "start" -> take(tok, Append(st.stk, tok.n))
               [] tok.k = "end" ->
                    IF st.stk = <<>> \/ st.stk[Len(st.stk)] # tok.n THEN fail(ErrSyntaxXML)
                    ELSE take(tok, SubSeq(st.stk, 1, Len(st.stk) - 1))
               [] tok.k = "text" ->
                    LET x == XmlText(tok.s)
                    IN  IF x.ok THEN take(TextTok(x.s), st.stk) ELSE fail(ErrSyntaxXML)
               [] tok.k = "cut" ->
                    IF st.pos = Len(doc) /\ st.rerr # ErrEOF THEN read(st.rerr)
                    ELSE fail(ErrSyntaxXML)
               [] OTHER -> take(tok, st.stk)

\* xml.Decoder.Token: [st, t, e]
DecoderToken(doc, st) ==
    LET fail(err) == [st |-> [st EXCEPT !.derr = err], t |-> NoTok, e |-> err]
        \* a read of the stream at the end of the data
        read(err) ==
            [st |-> [st EXCEPT !.derr = err,
                               !.failed = @ \/ st.rerr # ErrEOF,
                               !.late = IF st.failed THEN @ + 1 ELSE @],
             t |-> NoTok, e |-> err]
        take(tok, stk) ==
            [st |-> [st EXCEPT !.pos = @ + 1, !.stk = stk, !.reads = @ + 1],
             t |-> tok, e |-> NilErr]
    IN  IF st.derr # NilErr THEN fail(st.derr)
        ELSE IF st.pos > Len(doc) THEN
             read(IF st.rerr = ErrEOF /\ st.stk # <<>> THEN ErrSyntaxXML ELSE st.rerr)
        ELSE LET tok == doc[st.pos] IN
             CASE tok.k = "start" -> take(tok, Append(st.stk, tok.n))
               [] tok.k = "end" ->
                    IF st.stk = <<>> \/ st.stk[Len(st.stk)] # tok.n THEN fail(ErrSyntaxXML)
                    ELSE take(tok, SubSeq(st.stk, 1, Len(st.stk) - 1))
               [] tok.k = "text" ->
                    LET x == XmlText(tok.s)
                    IN  IF x.ok THEN take(TextTok(x.s), st.stk) ELSE fail(ErrSyntaxXML)
               \* markup that is not complete: the reader's error when the data
               \* end in it and the reader fails, a syntax error otherwise
               [] tok.k = "cut" ->
                    IF st.pos = Len(doc) /\ st.rerr # ErrEOF THEN read(st.rerr)
                    ELSE fail(ErrSyntaxXML)
               [] OTHER -> take(tok, st.stk)

\* xml.Decoder.DecodeElement into a valueNode, the start element already read:
\* the character data directly inside the element is its Body, child elements
\* are skipped, and the element's end is consumed.  [st, body, e]
RECURSIVE DecodeBody(_, _, _, _)
DecodeBody(doc, st, depth, acc) ==
    LET r == DecoderToken(doc, st) IN
    IF r.e # NilErr THEN [st |-> r.st, body |-> <<>>, e |-> r.e]
    ELSE CASE r.t.k = "start" ->
                DecodeBody(doc, [r.st EXCEPT !.dropped = TRUE], depth + 1, acc)
           [] r.t.k = "end" ->
                IF depth = 0 THEN [st |-> r.st, body |-> acc, e |-> NilErr]
                ELSE DecodeBody(doc, r.st, depth - 1, acc)
           [] r.t.k = "text" ->
                DecodeBody(doc, r.st, depth, IF depth = 0 THEN acc \o r.t.s ELSE acc)
           [] OTHER -> DecodeBody(doc, r.st, depth, acc)

DecodeElement(doc, st) == DecodeBody(doc, st, 0, <<>>)

tokStart == 0
tokText == 1
tokStop == 2

\* the Reading loop of token: tokens are taken until one is an element
RECURSIVE Reading(_, _, _)
Reading(doc, st, t) ==
    IF t.k \in {"start", "end"} THEN [st |-> st, t |-> t, e |-> NilErr]
    ELSE With(DecoderToken(doc, st), LAMBDA r :
         IF r.e # NilErr THEN [st |-> r.st, t |-> NoTok, e |-> r.e]
         ELSE Reading(doc,
                      [r.st EXCEPT !.dropped = @ \/ (r.t.k = "text" /\ ~AllSpace(r.t.s))],
                      r.t))

\* the switch of state.token on typ, once the Reading loop has stopped at the
\* start or end element t
tokenSwitch(doc, st, t, typ, name) ==
    IF typ \in {tokStart, tokText} THEN
        IF t.k # "start" THEN
            [st |-> [st EXCEPT !.last = t, !.lost = @ \/ st.last # NoTok],
             t |-> t, body |-> <<>>,
             e |-> Errorf2(errNotStartElement, "required startelement")]
        ELSE IF typ = tokStart THEN
            IF name # "" /\ t.n # name THEN
                [st |-> [st EXCEPT !.hard = @ \cup {name}], t |-> t, body |-> <<>>,
                 e |-> Errorf2(errNameMismatch, "required <name>")]
            ELSE [st |-> st, t |-> t, body |-> <<>>, e |-> NilErr]
        ELSE With(DecodeElement(doc, st), LAMBDA d :
             [st |-> d.st, t |-> t, body |-> d.body, e |-> d.e])
    ELSE
        IF t.k # "end" THEN
            [st |-> [st EXCEPT !.last = t, !.lost = @ \/ st.last # NoTok,
                               !.hard = @ \cup {name}],
             t |-> t, body |-> <<>>,
             e |-> Errorf2(errNotEndElement, "required endelement")]
        ELSE IF name # "" /\ t.n # name THEN
            [st |-> [st EXCEPT !.hard = @ \cup {name}], t |-> t, body |-> <<>>,
             e |-> Errorf2(errNameMismatch, "required </name>")]
        ELSE [st |-> st, t |-> t, body |-> <<>>, e |-> NilErr]

\* state.token that leaves in the slot the token it takes from it
tokenKeepLast(doc, st0, typ, name) ==
    With(Reading(doc, st0, st0.last), LAMBDA rd :
    With(IF rd.e # NilErr THEN [st |-> rd.st, t |-> NoTok, body |-> <<>>, e |-> rd.e]
         ELSE tokenSwitch(doc, rd.st, rd.t, typ, name), LAMBDA r :
    [r EXCEPT !.st.trace = Append(@, Called(typ, name, st0.last, rd.st.reads - st0.reads,
                                            r.t, r.e, r.st.last))]))

\* state.token that reads the stream although the pushback slot holds a token
tokenPastLast(doc, st0, typ, name) ==
    With(Reading(doc, [st0 EXCEPT !.last = NoTok], NoTok), LAMBDA rd :
    With(IF rd.e # NilErr THEN [st |-> rd.st, t |-> NoTok, body |-> <<>>, e |-> rd.e]
         ELSE tokenSwitch(doc, rd.st, rd.t, typ, name), LAMBDA r :
    [r EXCEPT !.st.trace = Append(@, Called(typ, name, st0.last, rd.st.reads - st0.reads,
                                            r.t, r.e, r.st.last))]))

\* state.token: [st, t, body, e]
token(doc, st0, typ, name) ==
    With(Reading(doc, [st0 EXCEPT !.last = NoTok], st0.last), LAMBDA rd :
    With(IF rd.e # NilErr THEN [st |-> rd.st, t |-> NoTok, body |-> <<>>, e |-> rd.e]
         ELSE tokenSwitch(doc, rd.st, rd.t, typ, name), LAMBDA r :
    [r EXCEPT !.st.trace = Append(@, Called(typ, name, st0.last, rd.st.reads - st0.reads,
                                            r.t, r.e, r.st.last))]))

\* [st, se, e]: se is the token read when it is a start element, and the zero
\* StartElement (an empty name) otherwise
getStart(doc, st, name) ==
    With(token(doc, st, tokStart, name), LAMBDA r :
    [st |-> r.st, se |-> IF r.t.k = "start" THEN r.t ELSE StartTok(""), e |-> r.e])

\* [st, text, e]
getText(doc, st, name) ==
    With(token(doc, st, tokText, name), LAMBDA r :
    [st |-> r.st, text |-> r.body, e |-> r.e])

\* checkLast that reads nothing and is content
checkLastSkip(doc, st, name) == [st |-> st, e |-> NilErr]

\* [st, e]
checkLast(doc, st, name) ==
    With(token(doc, st, tokStop, name), LAMBDA r : [st |-> r.st, e |-> r.e])

(***************************************************************************)
(* Values: records whose k is the dynamic type, with the content in a      *)
(* field of its own for every type of content.                             *)
(***************************************************************************)
VNil == [k |-> "nil"]
VBool(b) == [k |-> "bool", b |-> b]
VInt(i) == [k |-> "int", i |-> i]
VStr(s) == [k |-> "str", s |-> s]
VDouble(d) == [k |-> "double", s |-> d]
VTime(t) == [k |-> "time", t |-> t]
VBytes(b) == [k |-> "bytes", by |-> b]
VArr(a) == [k |-> "arr", a |-> a]
VMap(m) == [k |-> "map", m |-> m]
VFault(code, msg) == [k |-> "fault", f |-> [code |-> code, msg |-> msg]]

\* a map[string]interface{} is a function from its keys
EmptyMap == [key \in {} |-> VNil]
\* an assignment that keeps the value a key already has
MapKeep(m, key, val) == [x \in (DOMAIN m) \cup {key} |-> IF x \in DOMAIN m THEN m[x] ELSE val]

MapPut(m, key, val) == [x \in (DOMAIN m) \cup {key} |-> IF x = key THEN val ELSE m[x]]

SimpleTags ==
    {"boolean", "string", "int", "i1", "i2", "i4", "i8", "double", "dateTime.iso8601", "base64"}

\* the loop over the four layouts: the first that parses wins, and the result
\* of the last attempt is what is left when none does
RECURSIVE ParseDate(_, _)
ParseDate(formats, body) ==
    With(TimeParse(Head(formats), body), LAMBDA r :
    IF r.e = NilErr \/ Len(formats) = 1 THEN r ELSE ParseDate(Tail(formats), body))

\* the conversion of a simple element's body: [v, e]
ParseSimple(tag, body) ==
    CASE tag = "boolean" ->
            With(ParseBool(body), LAMBDA r : [v |-> VBool(r.v), e |-> r.e])
      [] tag = "string" -> [v |-> VStr(body), e |-> NilErr]
      [] tag \in {"int", "i1", "i2", "i4"} ->
            With(ParseInt(body, 32), LAMBDA r : [v |-> VInt(r.v), e |-> r.e])
      [] tag = "i8" ->
            With(ParseInt(body, 64), LAMBDA r : [v |-> VInt(r.v), e |-> r.e])
      [] tag = "double" ->
            With(ParseFloat(body), LAMBDA r : [v |-> VDouble(r.v), e |-> r.e])
      [] tag = "dateTime.iso8601" ->
            With(ParseDate(<<FullXMLRpcTime, LocalXMLRpcTime, DenseXMLRpcTime,
                             DummyXMLRpcTime>>, body),
                 LAMBDA r : [v |-> VTime(r.v), e |-> r.e])
      [] tag = "base64" ->
            With(B64Decode(body), LAMBDA r : [v |-> VBytes(r.v), e |-> r.e])

\* state.parseValue: [st, nv, e]
RECURSIVE parseValue(_, _)
RECURSIVE structLoop(_, _, _)
RECURSIVE arrayLoop(_, _, _)

parseValue(doc, st0) ==
    With(getStart(doc, st0, ""), LAMBDA g :
    IF g.e # NilErr THEN
        [st |-> g.st, nv |-> VNil,
         e |-> IF ErrEq(g.e, errNotStartElement) THEN NilErr ELSE g.e]
    ELSE With(
         CASE g.se.n = "value" ->
                With(parseValue(doc, g.st), LAMBDA r :
                IF r.e # NilErr THEN r
                ELSE With(checkLast(doc, r.st, "value"), LAMBDA c :
                     [st |-> c.st, nv |-> r.nv, e |-> c.e]))
           [] g.se.n \in SimpleTags ->
                With(DecodeElement(doc, [g.st EXCEPT !.last = NoTok,
                                                     !.lost = @ \/ g.st.last # NoTok]),
                     LAMBDA d :
                IF d.e # NilErr THEN [st |-> d.st, nv |-> VNil, e |-> d.e]
                ELSE With(ParseSimple(g.se.n, d.body), LAMBDA r :
                     [st |-> d.st, nv |-> r.v, e |-> r.e]))
           [] g.se.n = "struct" -> structLoop(doc, g.st, EmptyMap)
           [] g.se.n = "array" ->
                With(getStart(doc, g.st, "data"), LAMBDA s :
                IF s.e # NilErr THEN [st |-> s.st, nv |-> VNil, e |-> s.e]
                ELSE arrayLoop(doc, s.st, <<>>))
           [] OTHER -> [st |-> g.st, nv |-> VNil, e |-> NewErr("cannot parse unknown tag")],
         LAMBDA x :
         [x EXCEPT !.st.vals = Append(@, Parsed(g.se, Len(st0.stk), st0.last, x.st, x.e))]))

\* the array loop with values = append([]interface{}{v}, values...) for its append
arrayLoopPrepend(doc, st0, values) ==
    With(getStart(doc, st0, "value"), LAMBDA s :
    IF s.e # NilErr THEN
        IF ErrEq(s.e, errNotStartElement) THEN
            With(checkLast(doc, s.st, "data"), LAMBDA c1 :
            IF c1.e # NilErr THEN [st |-> c1.st, nv |-> VArr(values), e |-> c1.e]
            ELSE With(checkLast(doc, c1.st, "array"), LAMBDA c2 :
                 [st |-> c2.st, nv |-> VArr(values), e |-> c2.e]))
        ELSE [st |-> s.st, nv |-> VNil, e |-> s.e]
    ELSE With(parseValue(doc, s.st), LAMBDA p :
    IF p.e # NilErr THEN [st |-> p.st, nv |-> VNil, e |-> p.e]
    ELSE With(checkLast(doc, p.st, "value"), LAMBDA c :
    IF c.e # NilErr THEN [st |-> c.st, nv |-> VNil, e |-> c.e]
    ELSE arrayLoop(doc, c.st, <<p.nv>> \o values))))

structLoop(doc, st0, values) ==
    With(getStart(doc, st0, "member"), LAMBDA m :
    IF m.e # NilErr THEN
        IF ErrEq(m.e, errNotStartElement) THEN
            With(checkLast(doc, m.st, "struct"), LAMBDA c :
            [st |-> c.st, nv |-> VMap(values), e |-> c.e])
        ELSE [st |-> m.st, nv |-> VMap(values), e |-> m.e]
    ELSE With(getText(doc, m.st, "name"), LAMBDA n :
    IF n.e # NilErr THEN [st |-> n.st, nv |-> VMap(values), e |-> n.e]
    ELSE With(getStart(doc, n.st, "value"), LAMBDA s :
    IF s.e # NilErr THEN [st |-> s.st, nv |-> VMap(values), e |-> s.e]
    ELSE With(parseValue(doc, s.st), LAMBDA p :
    With(MapPut(values, n.text, p.nv), LAMBDA values2 :
    IF p.e # NilErr THEN [st |-> p.st, nv |-> VMap(values2), e |-> p.e]
    ELSE With(checkLast(doc, p.st, "value"), LAMBDA c1 :
    IF c1.e # NilErr THEN [st |-> c1.st, nv |-> VMap(values2), e |-> c1.e]
    ELSE With(checkLast(doc, c1.st, "member"), LAMBDA c2 :
    IF c2.e # NilErr THEN [st |-> c2.st, nv |-> VMap(values2), e |-> c2.e]
    ELSE structLoop(doc, c2.st, values2))))))))

arrayLoop(doc, st0, values) ==
    With(getStart(doc, st0, "value"), LAMBDA s :
    IF s.e # NilErr THEN
        IF ErrEq(s.e, errNotStartElement) THEN
            With(checkLast(doc, s.st, "data"), LAMBDA c1 :
            IF c1.e # NilErr THEN [st |-> c1.st, nv |-> VArr(values), e |-> c1.e]
            ELSE With(checkLast(doc, c1.st, "array"), LAMBDA c2 :
                 [st |-> c2.st, nv |-> VArr(values), e |-> c2.e]))
        ELSE [st |-> s.st, nv |-> VNil, e |-> s.e]
    ELSE With(parseValue(doc, s.st), LAMBDA p :
    IF p.e # NilErr THEN [st |-> p.st, nv |-> VNil, e |-> p.e]
    ELSE With(checkLast(doc, p.st, "value"), LAMBDA c :
    IF c.e # NilErr THEN [st |-> c.st, nv |-> VNil, e |-> c.e]
    ELSE arrayLoop(doc, c.st, Append(values, p.nv)))))

(***************************************************************************)
(* Unmarshal: [name, params, fault, e, st].  A nil *Fault is NoFault; st   *)
(* is the parser as the call leaves it.                                    *)
(***************************************************************************)
NoFault == VNil

MinusOne == MkInt(TRUE, <<1>>)

\* the member names of a fault
FaultCodeName == <<"f", "a", "u", "l", "t", "C", "o", "d", "e">>
FaultStringName == <<"f", "a", "u", "l", "t", "S", "t", "r", "i", "n", "g">>

\* what Unmarshal returns
Returned(name, params, fault, e, st) ==
    [name |-> name, params |-> params, fault |-> fault, e |-> e, st |-> st]

\* the fault branch without its last statement, e = st.checkLast("fault")
faultOfUnclosed(doc, st, name, v) ==
    IF v.k # "map" THEN Returned(name, <<>>, NoFault, NewErr("fault not fault"), st)
    ELSE IF FaultCodeName \notin DOMAIN v.m
        THEN Returned(name, <<>>, VFault(MinusOne, <<>>), NewErr("no faultCode in fault"), st)
    ELSE IF v.m[FaultCodeName].k # "int"
        THEN Returned(name, <<>>, VFault(MinusOne, <<>>), NewErr("faultCode not int?"), st)
    ELSE IF FaultStringName \notin DOMAIN v.m
        THEN Returned(name, <<>>, VFault(v.m[FaultCodeName].i, <<>>),
                      NewErr("no faultString in fault"), st)
    ELSE IF v.m[FaultStringName].k # "str"
        THEN Returned(name, <<>>, VFault(v.m[FaultCodeName].i, <<>>),
                      NewErr("faultString not strin?"), st)
    ELSE Returned(name, <<>>, VFault(v.m[FaultCodeName].i, v.m[FaultStringName].s),
                  NilErr, st)

\* the fault branch on the value v that parseValue gave, the parser being st
faultOf(doc, st, name, v) ==
    IF v.k # "map" THEN Returned(name, <<>>, NoFault, NewErr("fault not fault"), st)
    ELSE IF FaultCodeName \notin DOMAIN v.m
        THEN Returned(name, <<>>, VFault(MinusOne, <<>>), NewErr("no faultCode in fault"), st)
    ELSE IF v.m[FaultCodeName].k # "int"
        THEN Returned(name, <<>>, VFault(MinusOne, <<>>), NewErr("faultCode not int?"), st)
    ELSE IF FaultStringName \notin DOMAIN v.m
        THEN Returned(name, <<>>, VFault(v.m[FaultCodeName].i, <<>>),
                      NewErr("no faultString in fault"), st)
    ELSE IF v.m[FaultStringName].k # "str"
        THEN Returned(name, <<>>, VFault(v.m[FaultCodeName].i, <<>>),
                      NewErr("faultString not strin?"), st)
    ELSE With(checkLast(doc, st, "fault"), LAMBDA c :
         Returned(name, <<>>, VFault(v.m[FaultCodeName].i, v.m[FaultStringName].s),
                  c.e, c.st))

\* the fault branch, after <fault> was found where <params> was required
parseFault(doc, st0, name) ==
    With(parseValue(doc, st0), LAMBDA p :
    IF p.e # NilErr THEN Returned(name, <<>>, NoFault, p.e, p.st)
    ELSE faultOf(doc, p.st, name, p.nv))

RECURSIVE paramLoop(_, _, _)

\* the loop with the error of parseValue dropped in place of the break
paramLoopSwallow(doc, st0, params) ==
    With(getStart(doc, st0, "param"), LAMBDA g :
    IF g.e # NilErr THEN
        IF ErrEq(g.e, errNotStartElement)
        THEN [st |-> g.st, params |-> params, e |-> NilErr, closing |-> TRUE]
        ELSE [st |-> g.st, params |-> params, e |-> g.e, closing |-> FALSE]
    ELSE With(parseValue(doc, g.st), LAMBDA p :
    IF p.e # NilErr
    THEN [st |-> [p.st EXCEPT !.broke = TRUE], params |-> params, e |-> NilErr,
          closing |-> FALSE]
    ELSE With(checkLast(doc, p.st, "param"), LAMBDA c :
    IF c.e # NilErr
    THEN [st |-> c.st, params |-> Append(params, p.nv), e |-> c.e, closing |-> FALSE]
    ELSE paramLoop(doc, c.st, Append(params, p.nv)))))

\* the loop over the <param> elements: [st, params, e, closing], closing telling
\* whether the loop was left by break (the closing tags are checked next) or by
\* return
paramLoop(doc, st0, params) ==
    With(getStart(doc, st0, "param"), LAMBDA g :
    IF g.e # NilErr THEN
        IF ErrEq(g.e, errNotStartElement)
        THEN [st |-> g.st, params |-> params, e |-> NilErr, closing |-> TRUE]
        ELSE [st |-> g.st, params |-> params, e |-> g.e, closing |-> FALSE]
    ELSE With(parseValue(doc, g.st), LAMBDA p :
    IF p.e # NilErr
    THEN [st |-> [p.st EXCEPT !.broke = TRUE], params |-> params, e |-> p.e, closing |-> TRUE]
    ELSE With(checkLast(doc, p.st, "param"), LAMBDA c :
    IF c.e # NilErr
    THEN [st |-> c.st, params |-> Append(params, p.nv), e |-> c.e, closing |-> FALSE]
    ELSE paramLoop(doc, c.st, Append(params, p.nv)))))

\* Unmarshal from <params> on, the envelope being typ and the method name name
unmarshalParams(doc, st, typ, name) ==
    With(getStart(doc, st, "params"), LAMBDA s :
    IF s.e # NilErr THEN
        IF ErrEq(s.e, errNameMismatch) /\ s.se.n = "fault"
        THEN parseFault(doc, s.st, name)
        ELSE Returned(name, <<>>, NoFault, s.e, s.st)
    ELSE With(paramLoop(doc, s.st, <<>>), LAMBDA l :
    IF ~l.closing THEN Returned(name, l.params, NoFault, l.e, l.st)
    ELSE With(checkLast(doc, l.st, "params"), LAMBDA c1 :
    IF c1.e # NilErr THEN Returned(name, l.params, NoFault, c1.e, c1.st)
    ELSE With(checkLast(doc, c1.st, typ), LAMBDA c2 :
         Returned(name, l.params, NoFault, c2.e, c2.st)))))

Unmarshal(doc, rerr) ==
    With(getStart(doc, newParser(rerr), "methodResponse"), LAMBDA r :
    IF ErrEq(r.e, errNameMismatch) THEN
        With(getText(doc, r.st, "methodName"), LAMBDA n :
        IF n.e # NilErr THEN Returned(n.text, <<>>, NoFault, n.e, n.st)
        ELSE unmarshalParams(doc, n.st, "methodCall", n.text))
    ELSE unmarshalParams(doc, r.st, "methodResponse", <<>>))

(***************************************************************************)
(* The io.Writer: out is what has been written, left the number of Write   *)
(* calls that will still succeed (-1: all of them).  A failed Write writes *)
(* nothing.  failed, after and log are history: whether a Write has        *)
(* failed, how many Writes were asked for after that, and what each Write  *)
(* that succeeded was given.                                               *)
(***************************************************************************)
NewWriter(left) ==
    [out |-> <<>>, left |-> left, failed |-> FALSE, after |-> 0, log |-> <<>>]

\* character data written next to character data is one run of text
Join(out, toks) ==
    IF out # <<>> /\ toks # <<>> /\ out[Len(out)].k = "text" /\ toks[1].k = "text"
    THEN SubSeq(out, 1, Len(out) - 1) \o <<TextTok(out[Len(out)].s \o toks[1].s)>> \o Tail(toks)
    ELSE out \o toks

Text(s) == IF s = <<>> THEN <<>> ELSE <<TextTok(s)>>

\* one Write: [w, e]
Write(w, toks) ==
    IF w.left = 0
    THEN [w |-> [w EXCEPT !.failed = TRUE, !.after = IF w.failed THEN @ + 1 ELSE @],
          e |-> ErrWrite]
    ELSE [w |-> [w EXCEPT !.out = Join(w.out, toks),
                          !.left = IF w.left > 0 THEN w.left - 1 ELSE w.left,
                          !.log = Append(@, toks)],
          e |-> NilErr]

\* Writes one after the other, each checked, up to the first that fails: [w, e]
RECURSIVE WriteAll(_, _)
WriteAll(w, chunks) ==
    IF chunks = <<>> THEN [w |-> w, e |-> NilErr]
    ELSE With(Write(w, Head(chunks)), LAMBDA r :
         IF r.e # NilErr THEN r ELSE WriteAll(r.w, Tail(chunks)))

\* taggedWrite: seven Writes, "<", tag, ">", inner, "</", tag, ">".  What is on
\* the stream after the first j of them:
TaggedPrefix(tag, inner, j) ==
    CASE j = 0 -> <<>>
      [] j = 1 -> <<CutTok(<<"<">>)>>
      [] j = 2 -> <<CutTok(<<"<", tag>>)>>
      [] j = 3 -> <<StartTok(tag)>>
      [] j = 4 -> <<StartTok(tag)>> \o Text(inner)
      [] j = 5 -> <<StartTok(tag)>> \o Text(inner) \o <<CutTok(<<"</">>)>>
      [] j = 6 -> <<StartTok(tag)>> \o Text(inner) \o <<CutTok(<<"</", tag>>)>>
      [] OTHER -> <<StartTok(tag)>> \o Text(inner) \o <<EndTok(tag)>>

\* the bytes each of the seven Writes is given
TaggedPieces(tag, inner) ==
    << <<CutTok(<<"<">>)>>, <<CutTok(<<tag>>)>>, <<CutTok(<<">">>)>>, Text(inner),
       <<CutTok(<<"</">>)>>, <<CutTok(<<tag>>)>>, <<CutTok(<<">">>)>> >>

taggedWrite(w, tag, inner) ==
    LET j == IF w.left < 0 \/ w.left >= 7 THEN 7 ELSE w.left
    IN  [w |-> [w EXCEPT !.out = Join(w.out, TaggedPrefix(tag, inner, j)),
                         !.left = IF w.left < 0 THEN w.left ELSE w.left - j,
                         !.failed = @ \/ j < 7,
                         !.after = IF w.failed THEN @ + 1 ELSE @,
                         !.log = @ \o SubSeq(TaggedPieces(tag, inner), 1, j)],
         e |-> IF j = 7 THEN NilErr ELSE ErrWrite]

taggedWriteString(w, tag, inner) ==
    WriteAll(w, << <<StartTok(tag)>>, Text(inner), <<EndTok(tag)>> >>)

(***************************************************************************)
(* Faults                                                                  *)
(***************************************************************************)
\* getFault: [f, ok].  Besides the decoded kinds a value to encode may be a
\* Fault ("fault"), a *Fault ("pfault", or "nilpfault" when nil), another error
\* ("error", s its message), the nil interface ("nil"), a func, a chan, a
\* uintptr, a complex number, a pointer ("ptr", p the value it points to, or
\* "nilptr"), an unsafe.Pointer or a struct (its fields in order)
getFault(v) ==
    IF v.k \in {"fault", "pfault"} THEN [f |-> v.f, ok |-> TRUE]
    ELSE IF v.k = "error" THEN [f |-> [code |-> MinusOne, msg |-> v.s], ok |-> TRUE]
    ELSE [f |-> [code |-> Zero, msg |-> <<>>], ok |-> FALSE]

\* the text of Fault.WriteXML; the line breaks and tabs of its format string
\* are character data between the elements
FaultXML(f) ==
    LET indent == <<LF, TAB, TAB, TAB>>
    IN  <<StartTok("fault"), StartTok("value"), StartTok("struct"), TextTok(indent),
          StartTok("member")>> \o Elem("name", FaultCodeName)
        \o <<StartTok("value")>> \o Elem("int", FormatInt(f.code))
        \o <<EndTok("value"), EndTok("member"), TextTok(indent), StartTok("member")>>
        \o Elem("name", FaultStringName)
        \o <<StartTok("value")>> \o Elem("string", xmlEscape(f.msg))
        \o <<EndTok("value"), EndTok("member"), TextTok(indent),
             EndTok("struct"), EndTok("value"), EndTok("fault")>>

\* Fault.WriteXML: one Fprintf
FaultWriteXML(w, f) == Write(w, FaultXML(f))

(***************************************************************************)
(* WriteXML: [w, e, panic].  typ asks for typed scalars; ord is the order  *)
(* in which this run iterates over map keys (Go leaves it unspecified): a  *)
(* sequence that holds every key once.                                     *)
(***************************************************************************)
Done(r) == [w |-> r.w, e |-> r.e, panic |-> FALSE]

Panic(w) == [w |-> w, e |-> NilErr, panic |-> TRUE]

UpperCase ==
    {"A", "B", "C", "D", "E", "F", "G", "H", "I", "J", "K", "L", "M", "N", "O", "P", "Q",
     "R", "S", "T", "U", "V", "W", "X", "Y", "Z"}

\* strings.ToLower(c) == c, for the first character of a field name
IsUnexported(fieldName) == fieldName[1] \notin UpperCase

getStructFieldName(sf) == IF sf.tag = <<>> THEN sf.name ELSE sf.tag

KeysInOrder(m, ord) == SelectSeq(ord, LAMBDA key : key \in DOMAIN m)

RECURSIVE WriteXML(_, _, _, _)
RECURSIVE writeElems(_, _, _, _)
RECURSIVE writeMembers(_, _, _, _, _)
RECURSIVE writeFields(_, _, _)

WriteXML(w, v, typ, ord) ==
    With(getFault(v), LAMBDA fp :
    IF fp.ok THEN Done(FaultWriteXML(w, fp.f))
    ELSE IF v.k = "bytes" THEN Done(taggedWrite(w, "base64", B64Encode(v.by)))
    ELSE IF v.k = "time" THEN Done(taggedWriteString(w, "dateTime.iso8601", FormatFullTime(v.t)))
    \* reflect.Value.Type of the zero Value, and Interface of the zero Value that
    \* Indirect makes of a nil pointer, panic
    ELSE IF v.k \in {"nil", "nilptr", "nilpfault"} THEN Panic(w)
    ELSE CASE v.k \in {"uintptr", "complex", "chan", "func"} ->
                [w |-> w, e |-> Errorf2(ErrUnsupported, "v= t= k="), panic |-> FALSE]
           [] v.k = "bool" -> Done(Write(w, Elem("boolean", FormatBool(v.b))))
           [] v.k = "int" ->
                IF typ THEN Done(Write(w, Elem("int", FormatInt(v.i))))
                ELSE Done(Write(w, Text(FormatInt(v.i))))
           [] v.k = "double" ->
                IF typ THEN Done(Write(w, Elem("double", v.s)))
                ELSE Done(Write(w, Text(v.s)))
           [] v.k = "arr" ->
                With(Write(w, <<StartTok("array"), StartTok("data"), TextTok(<<LF>>)>>),
                     LAMBDA r : IF r.e # NilErr THEN Done(r)
                                ELSE writeElems(r.w, v.a, typ, ord))
           [] v.k = "map" ->
                With(Write(w, <<StartTok("struct"), TextTok(<<LF>>)>>),
                     LAMBDA r : IF r.e # NilErr THEN Done(r)
                                ELSE writeMembers(r.w, v.m, KeysInOrder(v.m, ord), typ, ord))
           [] v.k = "ptr" -> WriteXML(w, v.p, typ, ord)
           [] v.k = "str" ->
                IF typ THEN Done(Write(w, Elem("string", xmlEscape(v.s))))
                ELSE Done(Write(w, Text(xmlEscape(v.s))))
           [] v.k = "struct" ->
                With(Write(w, <<StartTok("struct")>>),
                     LAMBDA r : IF r.e # NilErr THEN Done(r)
                                ELSE writeFields(r.w, v.fields, ord))
           \* reflect.Value.Elem of an unsafe.Pointer panics
           [] v.k = "unsafeptr" -> Panic(w))

\* the loop over the elements of an array or slice, and what follows it
writeElems(w, elems, typ, ord) ==
    IF elems = <<>> THEN
        Done(Write(w, <<EndTok("data"), EndTok("array"), TextTok(<<LF>>)>>))
    ELSE With(Write(w, <<TextTok(<<" ", " ">>), StartTok("value")>>), LAMBDA r1 :
    IF r1.e # NilErr THEN Done(r1)
    ELSE With(WriteXML(r1.w, Head(elems), typ, ord), LAMBDA r2 :
    IF r2.panic \/ r2.e # NilErr THEN r2
    ELSE With(Write(r2.w, <<EndTok("value"), TextTok(<<LF>>)>>), LAMBDA r3 :
    IF r3.e # NilErr THEN Done(r3)
    ELSE writeElems(r3.w, Tail(elems), typ, ord))))

\* the loop over the keys of a map, and what follows it
writeMembers(w, m, keys, typ, ord) ==
    IF keys = <<>> THEN Done(Write(w, <<EndTok("struct")>>))
    ELSE With(WriteAll(w, << <<TextTok(<<" ", " ">>), StartTok("member"), StartTok("name")>>,
                             Text(xmlEscape(Head(keys))),
                             <<EndTok("name"), StartTok("value")>> >>), LAMBDA r1 :
    IF r1.e # NilErr THEN Done(r1)
    ELSE With(WriteXML(r1.w, m[Head(keys)], typ, ord), LAMBDA r2 :
    IF r2.panic \/ r2.e # NilErr THEN r2
    ELSE With(Write(r2.w, <<EndTok("value"), EndTok("member"), TextTok(<<LF>>)>>), LAMBDA r3 :
    IF r3.e # NilErr THEN Done(r3)
    ELSE writeMembers(r3.w, m, Tail(keys), typ, ord))))

\* the loop over the fields of a struct, and what follows it
writeFields(w, fields, ord) ==
    IF fields = <<>> THEN Done(Write(w, <<EndTok("struct")>>))
    ELSE IF IsUnexported(Head(fields).name) THEN writeFields(w, Tail(fields), ord)
    ELSE With(WriteAll(w, << <<StartTok("member"), StartTok("name")>>,
                             Text(xmlEscape(getStructFieldName(Head(fields)))),
                             <<EndTok("name"), StartTok("value")>> >>), LAMBDA r1 :
    IF r1.e # NilErr THEN Done(r1)
    ELSE With(WriteXML(r1.w, Head(fields).val, TRUE, ord), LAMBDA r2 :
    IF r2.panic \/ r2.e # NilErr THEN r2
    ELSE With(Write(r2.w, <<EndTok("value"), EndTok("member")>>), LAMBDA r3 :
    IF r3.e # NilErr THEN Done(r3)
    ELSE writeFields(r3.w, Tail(fields), ord))))

(***************************************************************************)
(* Marshal: [w, e, panic]                                                  *)
(***************************************************************************)
RECURSIVE writeParams(_, _, _, _)

\* the loop with the error of WriteXML not looked at
writeParamsOn(w, name, args, ord) ==
    IF args = <<>> THEN
        IF name = <<>>
        THEN Done(Write(w, <<EndTok("params"), EndTok("methodResponse")>>))
        ELSE Done(Write(w, <<EndTok("params"), EndTok("methodCall")>>))
    ELSE With(Write(w, <<TextTok(<<" ", " ">>), StartTok("param"), StartTok("value")>>),
              LAMBDA r1 :
    IF r1.e # NilErr THEN Done(r1)
    ELSE With(WriteXML(r1.w, Head(args), TRUE, ord), LAMBDA r2 :
    IF r2.panic THEN r2
    ELSE With(Write(r2.w, <<EndTok("value"), EndTok("param"), TextTok(<<LF>>)>>), LAMBDA r3 :
    IF r3.e # NilErr THEN Done(r3)
    ELSE writeParams(r3.w, name, Tail(args), ord))))

\* the loop over the arguments, and the closing tags
writeParams(w, name, args, ord) ==
    IF args = <<>> THEN
        IF name = <<>>
        THEN Done(Write(w, <<EndTok("params"), EndTok("methodResponse")>>))
        ELSE Done(Write(w, <<EndTok("params"), EndTok("methodCall")>>))
    ELSE With(Write(w, <<TextTok(<<" ", " ">>), StartTok("param"), StartTok("value")>>),
              LAMBDA r1 :
    IF r1.e # NilErr THEN Done(r1)
    ELSE With(WriteXML(r1.w, Head(args), TRUE, ord), LAMBDA r2 :
    IF r2.panic \/ r2.e # NilErr THEN r2
    ELSE With(Write(r2.w, <<EndTok("value"), EndTok("param"), TextTok(<<LF>>)>>), LAMBDA r3 :
    IF r3.e # NilErr THEN Done(r3)
    ELSE writeParams(r3.w, name, Tail(args), ord))))

\* a variant of marshalParams without the line feed after <params>; the
\* get_name envelope of C9 tells it from marshalParams
marshalParamsNoBreak(w, name, args, ord) ==
    With(Write(w, <<StartTok("params")>>), LAMBDA r :
    IF r.e # NilErr THEN Done(r) ELSE writeParams(r.w, name, args, ord))

\* from <params> on
marshalParams(w, name, args, ord) ==
    With(Write(w, <<StartTok("params"), TextTok(<<LF>>)>>), LAMBDA r :
    IF r.e # NilErr THEN Done(r) ELSE writeParams(r.w, name, args, ord))

\* the envelope's opening: <methodResponse>, or <methodCall> with the method
\* name, in the three Writes of Marshal
writeOpening(w, name) ==
    IF name = <<>> THEN Write(w, <<StartTok("methodResponse")>>)
    ELSE WriteAll(w, << <<StartTok("methodCall"), StartTok("methodName")>>,
                        Text(xmlEscape(name)),
                        <<EndTok("methodName"), TextTok(<<LF>>)>> >>)

\* a variant of Marshal that does not return after the fault but goes on to
\* the remaining arguments; C5 tells it from Marshal
MarshalFaultThenParams(w, name, args, ord) ==
    With(writeOpening(w, name), LAMBDA r :
    IF r.e # NilErr THEN Done(r)
    ELSE IF name = <<>> /\ Len(args) > 0 /\ getFault(args[1]).ok THEN
        With(FaultWriteXML(r.w, getFault(args[1]).f), LAMBDA f :
        IF f.e # NilErr THEN Done(f)
        ELSE marshalParams(f.w, name, Tail(args), ord))
    ELSE marshalParams(r.w, name, args, ord))

Marshal(w, name, args, ord) ==
    With(writeOpening(w, name), LAMBDA r :
    IF r.e # NilErr THEN Done(r)
    ELSE IF name = <<>> /\ Len(args) > 0 /\ getFault(args[1]).ok THEN
        With(FaultWriteXML(r.w, getFault(args[1]).f), LAMBDA f :
        IF f.e # NilErr THEN Done(f)
        ELSE Done(Write(f.w, <<TextTok(<<LF>>), EndTok("methodResponse")>>)))
    ELSE marshalParams(r.w, name, args, ord))

(***************************************************************************)
(* The inputs: the calls made and the documents received                   *)
(***************************************************************************)
MaxStrLen == 2
MaxDepth == 2
MaxArgs == 3
MaxWrites == 8

StrChars == {"a", "&", "<", CR}

Strs == SeqsUpTo(StrChars, MaxStrLen)

PosInt(n) == MkInt(FALSE, n)
NegInt(n) == MkInt(TRUE, n)

Ints ==
    { Zero, PosInt(<<7>>), MinusOne, PosInt(<<1, 0, 0>>),
      MaxOf(32), MinOf(32), PosInt(PowMag(32)), NegInt(<<2, 1, 4, 7, 4, 8, 3, 6, 4, 9>>),
      MaxOf(64), MinOf(64) }

Blobs == { <<>>, <<255>>, <<0, 16>>, <<77, 97, 110>>, <<1, 2, 3, 250>> }

Bad == <<"b", "a", "d">>

GetName == <<"g", "e", "t", "_", "n", "a", "m", "e">>

\* the values that have an XML-RPC form of their own
Leaves ==
    {VBool(b) : b \in BOOLEAN} \cup {VInt(i) : i \in Ints}
    \cup {VStr(s) : s \in Strs} \cup {VBytes(b) : b \in Blobs}

ATime == [Y |-> 2006, M |-> 1, D |-> 2, h |-> 15, m |-> 4, s |-> 5, off |-> -420]

AStruct ==
    [k |-> "struct",
     fields |-> << [name |-> <<"H", "a", "s", "h">>, tag |-> <<>>, val |-> VStr(<<"a">>)],
              [name |-> <<"s", "i", "z", "e">>, tag |-> <<>>, val |-> VInt(PosInt(<<7>>))],
              [name |-> <<"L", "a", "b", "e", "l">>, tag |-> <<"l", "<">>, val |-> VBool(TRUE)] >>]

\* fault-like values, values without a wire form, and the rest of what Go can
\* hand to the encoder
Specials ==
    { VFault(PosInt(<<7>>), Bad), VFault(PosInt(PowMag(32)), <<"a", "<">>),
      [k |-> "pfault", f |-> [code |-> MinusOne, msg |-> <<>>]],
      [k |-> "error", s |-> Bad],
      [k |-> "nilpfault"], VNil,
      [k |-> "func"], [k |-> "chan"],
      [k |-> "uintptr"], [k |-> "complex"],
      [k |-> "ptr", p |-> VInt(PosInt(<<7>>))], [k |-> "nilptr"],
      [k |-> "unsafeptr"], VTime(ATime), AStruct }

\* what arrays and maps are filled with at the innermost level
Elems0 == { VBool(TRUE), VInt(PosInt(<<7>>)), VStr(<<"a", "<">>), VFault(PosInt(<<7>>), Bad) }

Key1 == <<"k">>
Key2 == <<"a", "<">>
KeyOrders == { <<Key1, Key2>>, <<Key2, Key1>> }

\* arrays and maps of up to two entries, the first of them from E
Containers(E) ==
    {VArr(<<>>), VMap(EmptyMap)}
    \cup {VArr(<<a>>) : a \in E}
    \cup {VArr(<<a, b>>) : a \in E, b \in Elems0}
    \cup {VMap(MapPut(EmptyMap, key, a)) : key \in {Key1, Key2}, a \in E}
    \cup {VMap(MapPut(MapPut(EmptyMap, Key1, a), Key2, b)) : a \in E, b \in Elems0}

\* the arrays and maps nested to depth d at most
RECURSIVE Nested(_)
Nested(d) == IF d = 0 THEN {} ELSE Containers(Elems0 \cup Nested(d - 1))

Vals == Leaves \cup Specials \cup Nested(MaxDepth)

FirstArgs ==
    { VFault(PosInt(<<7>>), Bad), [k |-> "pfault", f |-> [code |-> MinusOne, msg |-> <<>>]],
      [k |-> "error", s |-> Bad], VBool(FALSE), VStr(<<"a">>), VArr(<<VInt(Zero)>>),
      [k |-> "func"], VNil }

MoreArgs == { VInt(PosInt(<<7>>)), [k |-> "func"], VFault(PosInt(<<7>>), Bad) }

\* a call of Marshal: the method name, the arguments, and how many Writes the
\* writer will take (-1: all)
Job(name, args, left) == [name |-> name, args |-> args, left |-> left]

Jobs ==
    {Job(n, <<>>, -1) : n \in Strs \cup {GetName}}
    \cup {Job(n, <<v>>, -1) : n \in {<<>>, <<"m">>}, v \in Vals}
    \cup {Job(n, <<v>> \o more, -1) :
            n \in {<<>>, <<"m">>}, v \in FirstArgs,
            more \in SeqsUpTo(MoreArgs, MaxArgs - 1) \ {<<>>}}
    \cup {Job(n, args, left) :
            n \in {<<>>, <<"m">>},
            args \in { <<>>, <<VFault(PosInt(<<7>>), Bad)>>, <<VBytes(<<255>>)>>,
                       <<VArr(<<VInt(Zero)>>), VBool(TRUE)>>,
                       <<VMap(MapPut(EmptyMap, Key1, VTime(ATime)))>>,
                       <<VBool(TRUE), [k |-> "func"], VBool(TRUE)>>,
                       <<VArr(<<VInt(Zero), [k |-> "chan"], VInt(Zero)>>), VBool(TRUE)>>,
                       <<VMap(MapPut(MapPut(EmptyMap, Key1, [k |-> "func"]), Key2,
                                     VBool(TRUE)))>> },
            left \in -1..MaxWrites}

(***************************************************************************)
(* Documents received: the bodies tried in the simple elements, and the    *)
(* shapes of document they are put in                                      *)
(***************************************************************************)
LeafBodies ==
    { <<>>,
      <<"a", "b", "c">>,
      <<"0">>,
      <<"1">>,
      <<"2">>,
      <<"t", "r", "u", "e">>,
      <<"f", "a", "l", "s", "e">>,
      <<"T", "r", "u", "e">>,
      <<"y", "e", "s">>,
      <<"7">>,
      <<"+", "7">>,
      <<"-", "1">>,
      <<"0", "0", "7">>,
      <<" ", "5">>,
      <<"2", "1", "4", "7", "4", "8", "3", "6", "4", "7">>,
      <<"2", "1", "4", "7", "4", "8", "3", "6", "4", "8">>,
      <<"-", "2", "1", "4", "7", "4", "8", "3", "6", "4", "8">>,
      <<"-", "2", "1", "4", "7", "4", "8", "3", "6", "4", "9">>,
      <<"9", "2", "2", "3", "3", "7", "2", "0", "3", "6", "8", "5", "4", "7", "7", "5", "8", "0", "7">>,
      <<"9", "2", "2", "3", "3", "7", "2", "0", "3", "6", "8", "5", "4", "7", "7", "5", "8", "0", "8">>,
      <<"-", "9", "2", "2", "3", "3", "7", "2", "0", "3", "6", "8", "5", "4", "7", "7", "5", "8", "0", "8">>,
      <<"-", "9", "2", "2", "3", "3", "7", "2", "0", "3", "6", "8", "5", "4", "7", "7", "5", "8", "0", "9">>,
      <<"1", ".", "5">>,
      <<"2", "0", "0", "6", "0", "1", "0", "2", "T", "1", "5", ":", "0", "4", ":", "0", "5">>,
      <<"2", "0", "0", "6", "-", "0", "1", "-", "0", "2", "T", "1", "5", ":", "0", "4", ":", "0", "5", "-", "0", "7", ":", "0", "0">>,
      <<"2", "0", "0", "6", "-", "0", "1", "-", "0", "2", "T", "1", "5", ":", "0", "4", ":", "0", "5">>,
      <<"2", "0", "0", "6", "0", "1", "0", "2", "T", "1", "5", ":", "0", "4", ":", "0", "5", "-", "0", "7", "0", "0">>,
      <<"n", "o", "t", "-", "a", "-", "d", "a", "t", "e">>,
      <<"2", "0", "0", "6", "1", "3", "0", "2", "T", "1", "5", ":", "0", "4", ":", "0", "5">>,
      <<"T", "W", "F", "u">>,
      <<"/", "w", "=", "=">>,
      <<"/", "w", "=">>,
      <<"!", "!", "!", "!">>,
      <<"a", "&", "a", "m", "p", ";">> }

Val(inner) == <<StartTok("value")>> \o inner \o <<EndTok("value")>>
Param(inner) == <<StartTok("param")>> \o inner \o <<EndTok("param")>>
Resp(params) ==
    <<StartTok("methodResponse"), StartTok("params")>> \o params
    \o <<EndTok("params"), EndTok("methodResponse")>>
Call(name, params) ==
    <<StartTok("methodCall")>> \o Elem("methodName", name) \o <<StartTok("params")>> \o params
    \o <<EndTok("params"), EndTok("methodCall")>>

Int1 == Elem("int", <<"1">>)
Int2 == Elem("int", <<"2">>)
Hello == <<TextTok(<<"h", "i">>)>>
Blank == <<TextTok(<<LF, " ">>)>>

\* one simple element as the only parameter, in a <value> or directly in the <param>
LeafDocs ==
    {Resp(Param(Val(Elem(tag, body)))) : tag \in SimpleTags, body \in LeafBodies}
    \cup {Resp(Param(Elem(tag, body))) : tag \in SimpleTags, body \in LeafBodies}

\* what may stand inside a <param>
ParamContents ==
    { <<>>, Hello, Blank, Val(<<>>), Val(Hello), Val(Blank), Val(Int1), Int1,
      Val(Int1) \o Val(Int2), Val(Int1 \o Int2), Val(Hello \o Int1), Val(Int1 \o Hello),
      Hello \o Val(Int1), Val(Int1) \o Hello, Val(Val(Int1)),
      Val(<<CommentTok>> \o Int1),
      Val(<<StartTok("int"), StartTok("x"), EndTok("x"), TextTok(<<"5">>), EndTok("int")>>),
      Val(Elem("nil", <<>>)),
      Val(<<StartTok("array"), StartTok("data")>> \o Val(Int1) \o Val(Int2)
          \o <<EndTok("data"), EndTok("array")>>),
      Val(<<StartTok("array"), StartTok("data")>> \o Val(<<>>) \o Hello
          \o <<EndTok("data"), EndTok("array")>>),
      Val(<<StartTok("struct"), StartTok("member")>> \o Elem("name", <<"k">>) \o Val(Int1)
          \o <<EndTok("member"), EndTok("struct")>>),
      Val(<<StartTok("struct"), StartTok("member")>> \o Elem("name", <<"k">>) \o Val(Hello)
          \o <<EndTok("member"), EndTok("struct")>>) }

ShapeDocs ==
    {Resp(Param(c)) : c \in ParamContents}
    \cup {Resp(Param(c) \o Param(d)) : c \in ParamContents, d \in {Val(Int2), Val(<<>>)}}
    \cup {Resp(Hello \o Param(c)) : c \in ParamContents}
    \cup {Resp(c) : c \in ParamContents}
    \cup {Call(<<"m">>, Param(c)) : c \in ParamContents}

Member(name, inner) ==
    <<StartTok("member")>> \o Elem("name", name) \o Val(inner) \o <<EndTok("member")>>
Struct(members) == <<StartTok("struct")>> \o members \o <<EndTok("struct")>>
Array(values) ==
    <<StartTok("array"), StartTok("data")>> \o values \o <<EndTok("data"), EndTok("array")>>

\* Fault documents.  A member of the fault's struct is [n, tag, body, ty, i]:
\* <member><name>n</name><value><tag>body</tag></value></member>, ty telling
\* what the body is for the tag ("int", "str", "other", or "bad" when the body
\* is no text of the tag's type), i the number when ty = "int".
FaultMember(n, tag, body, ty, i) == [n |-> n, tag |-> tag, body |-> body, ty |-> ty, i |-> i]

FaultMembers ==
    { FaultMember(FaultCodeName, "int", <<"7">>, "int", PosInt(<<7>>)),
      FaultMember(FaultCodeName, "i8", <<"-", "1">>, "int", NegInt(<<1>>)),
      FaultMember(FaultCodeName, "string", <<"7">>, "str", Zero),
      FaultMember(FaultCodeName, "int", <<"a", "b", "c">>, "bad", Zero),
      FaultMember(FaultStringName, "string", Bad, "str", Zero),
      FaultMember(FaultStringName, "string", <<>>, "str", Zero),
      FaultMember(FaultStringName, "boolean", <<"1">>, "other", Zero),
      FaultMember(Key1, "int", <<"1">>, "int", PosInt(<<1>>)) }

MaxMembers == 2

MemberXML(ms) ==
    Concat([j \in 1..Len(ms) |-> Member(ms[j].n, Elem(ms[j].tag, ms[j].body))])

\* what stands between the fault's value and the end of the document
FaultTails ==
    { <<EndTok("fault"), EndTok("methodResponse")>>,
      Hello \o <<EndTok("fault"), EndTok("methodResponse")>>,
      <<StartTok("x"), EndTok("x"), EndTok("fault"), EndTok("methodResponse")>>,
      <<>> }

FaultDoc(value, tail) == <<StartTok("methodResponse"), StartTok("fault")>> \o value \o tail

\* the last member of ms named n, as a set with at most one element
LastNamed(ms, n) ==
    {ms[j] : j \in {j \in 1..Len(ms) : ms[j].n = n /\ \A l \in (j + 1)..Len(ms) : ms[l].n # n}}

\* the fault documents with what they say: [doc, struct, ms, closed]
FaultCase(doc, struct, ms, closed) ==
    [doc |-> doc, struct |-> struct, ms |-> ms, closed |-> closed]

Closed(tail) == \E j \in 1..Len(tail) : tail[j] = EndTok("fault") /\ \A l \in 1..(j - 1) : tail[l].k = "text"

FaultCases ==
    {FaultCase(FaultDoc(Val(Struct(MemberXML(ms))), tail), TRUE, ms, Closed(tail)) :
        ms \in SeqsUpTo(FaultMembers, MaxMembers), tail \in FaultTails}
    \cup {FaultCase(FaultDoc(Struct(MemberXML(ms)), tail), TRUE, ms, Closed(tail)) :
        ms \in SeqsUpTo(FaultMembers, MaxMembers), tail \in FaultTails}
    \cup {FaultCase(FaultDoc(v, tail), FALSE, <<>>, Closed(tail)) :
        v \in {<<>>, Val(<<>>), Val(Hello), Val(Int1), Val(Elem("string", Bad)),
               Val(Array(Val(Int1))), Val(Elem("nil", <<>>))},
        tail \in FaultTails}

FaultDocs == {c.doc : c \in FaultCases}

\* Struct documents.  A member is [n, inner, v]: the name, the tokens in its
\* <value> and the value they stand for.
StructMember(n, inner, v) == [n |-> n, inner |-> inner, v |-> v]

KeyJ == <<"j">>

StructMembers ==
    { StructMember(Key1, Int1, VInt(PosInt(<<1>>))),
      StructMember(Key1, Int2, VInt(PosInt(<<2>>))),
      StructMember(Key1, Elem("string", <<"a">>), VStr(<<"a">>)),
      StructMember(KeyJ, Int1, VInt(PosInt(<<1>>))),
      StructMember(KeyJ, Elem("boolean", <<"1">>), VBool(TRUE)),
      StructMember(Key2, Struct(Member(Key1, Int2)),
                   VMap(MapPut(EmptyMap, Key1, VInt(PosInt(<<2>>))))) }

\* the name of a member is written escaped
StructXML(ms) ==
    Struct(Concat([j \in 1..Len(ms) |-> Member(xmlEscape(ms[j].n), ms[j].inner)]))

\* [doc, ms]: the struct of the members ms as the only parameter
StructCases ==
    {[doc |-> Resp(Param(Val(StructXML(ms)))), ms |-> ms] :
        ms \in SeqsUpTo(StructMembers, MaxMembers)}

StructDocs == {c.doc : c \in StructCases}

\* Array documents.  An item is [inner, v]: the tokens in a <value> child of
\* <data> and the value they stand for.
ArrayItem(inner, v) == [inner |-> inner, v |-> v]

ArrayItems ==
    { ArrayItem(Int1, VInt(PosInt(<<1>>))),
      ArrayItem(Int2, VInt(PosInt(<<2>>))),
      ArrayItem(Elem("string", <<"a">>), VStr(<<"a">>)),
      ArrayItem(Array(<<>>), VArr(<<>>)),
      ArrayItem(<<>>, VNil) }

MaxItems == 3

ArrayXML(items) == Array(Concat([j \in 1..Len(items) |-> Val(items[j].inner)]))
ArrayOf(items) == VArr([j \in 1..Len(items) |-> items[j].v])

\* [doc, items, want]: the array of the items as the only parameter, as the
\* first entry of an array that is, and as the member k of a struct that is;
\* want is the parameter the document stands for
ArrayCases ==
    {[doc |-> Resp(Param(Val(ArrayXML(items)))), items |-> items, want |-> ArrayOf(items)] :
        items \in SeqsUpTo(ArrayItems, MaxItems)}
    \cup {[doc |-> Resp(Param(Val(Array(Val(ArrayXML(items)) \o Val(Int1))))),
           items |-> items, want |-> VArr(<<ArrayOf(items), VInt(PosInt(<<1>>))>>)] :
        items \in SeqsUpTo(ArrayItems, MaxItems - 1)}
    \cup {[doc |-> Resp(Param(Val(Struct(Member(Key1, ArrayXML(items)))))),
           items |-> items, want |-> VMap(MapPut(EmptyMap, Key1, ArrayOf(items)))] :
        items \in SeqsUpTo(ArrayItems, MaxItems - 1)}

ArrayDocs == {c.doc : c \in ArrayCases}

\* Documents with an element where the parser requires another one
X == <<StartTok("x"), EndTok("x")>>

HardContents ==
    { <<StartTok("array")>> \o X \o <<EndTok("array")>>,
      <<StartTok("array"), StartTok("data")>> \o X \o <<EndTok("data"), EndTok("array")>>,
      <<StartTok("array"), StartTok("data")>> \o Val(Int1) \o X
          \o <<EndTok("data"), EndTok("array")>>,
      <<StartTok("array"), StartTok("data"), EndTok("data")>> \o X \o <<EndTok("array")>>,
      <<StartTok("array"), StartTok("data")>> \o Val(Int1 \o X)
          \o <<EndTok("data"), EndTok("array")>>,
      Struct(X),
      Struct(Member(Key1, Int1) \o X),
      Struct(<<StartTok("member")>> \o Elem("name", Key1) \o X \o <<EndTok("member")>>),
      Struct(<<StartTok("member")>> \o Elem("name", Key1) \o Val(Int1) \o X
             \o <<EndTok("member")>>),
      Struct(<<StartTok("member")>> \o Elem("name", Key1) \o Val(Int1 \o X)
             \o <<EndTok("member")>>),
      Struct(<<StartTok("member")>> \o X \o Val(Int1) \o <<EndTok("member")>>),
      Struct(<<StartTok("member")>> \o Val(Int1) \o <<EndTok("member")>>),
      Int1 \o X,
      X }

HardDocs ==
    {Resp(Param(Val(c))) : c \in HardContents}
    \cup {Resp(Param(c)) : c \in HardContents}
    \cup {Resp(Param(Val(c)) \o Param(Val(Int1))) : c \in HardContents}
    \cup {Resp(Param(Val(Array(Val(c))))) : c \in HardContents}
    \cup {Resp(Param(Val(Struct(Member(Key1, c))))) : c \in HardContents}
    \cup {Resp(X), Resp(Param(Val(Int1)) \o X), Resp(Param(Val(Int1)) \o X \o Param(Val(Int2))),
          Resp(X \o Param(Val(Int1)))}

\* [doc, n]: n well-formed parameters
ParamCases ==
    {[doc |-> Resp(Concat([j \in 1..n |-> Param(Val(Int1))])), n |-> n] : n \in 0..MaxArgs}
    \cup {[doc |-> Call(<<"m">>, Concat([j \in 1..n |-> Param(Val(Int2))])), n |-> n] :
            n \in 0..MaxArgs}

ParamDocs == {c.doc : c \in ParamCases}

\* Documents whose data end early: every beginning of the whole documents, as
\* it is and with the first character of a tag after it
WholeDocs ==
    { Resp(Param(Val(Int1)) \o Param(Val(Int2))),
      Resp(Param(Val(Array(Val(Int1) \o Val(Int2))))),
      Call(<<"m">>, Param(Val(Struct(Member(Key1, Int1))))),
      Resp(Param(Int1)),
      FaultDoc(Val(Struct(Member(FaultCodeName, Int1)
                          \o Member(FaultStringName, Elem("string", Bad)))),
               <<EndTok("fault"), EndTok("methodResponse")>>) }

Beginnings(d) == {SubSeq(d, 1, n) : n \in 0..Len(d)}

CutDocs ==
    UNION {Beginnings(d) : d \in WholeDocs}
    \cup UNION {{b \o <<CutTok(<<"<">>)>> : b \in Beginnings(d)} : d \in WholeDocs}

\* envelopes: the root named methodResponse, methodCall or otherwise, with or
\* without a text element for the method name, around a params block or a
\* fault, the fault followed or not by further elements
AFault ==
    <<StartTok("fault")>>
    \o Val(Struct(Member(FaultCodeName, Int1) \o Member(FaultStringName, Elem("string", Bad))))
    \o <<EndTok("fault")>>

AParams(ps) == <<StartTok("params")>> \o ps \o <<EndTok("params")>>

EnvelopeDocs ==
    { <<StartTok(r)>> \o head \o body \o <<EndTok(r)>> :
        r \in {"methodResponse", "methodCall", "foo"},
        head \in {<<>>, Elem("methodName", <<"m">>), Elem("x", <<"m">>)},
        body \in {AParams(<<>>), AParams(Param(Val(Int1))), AFault, AFault \o X,
                  AFault \o AParams(<<>>)} }

\* documents whose nesting is broken in one place: one end element of a
\* well-formed parameter taken out, or an element <x></x> put right after it,
\* or right before it where it is an end element checkLast is called for
NestDocs ==
    { Resp(Param(Val(Int1))),
      Resp(Param(Val(Val(Elem("string", <<"a">>))))),
      Resp(Param(Val(Struct(Member(Key1, Int1))))),
      Resp(Param(Val(Array(Val(Int1) \o Val(Int2))))) }

CheckedEnds == {"value", "struct", "member", "array", "data"}

ClosedByDecodeElement == {"int", "string", "name"}

EndsOf(d, names) == {j \in 1..Len(d) : d[j].k = "end" /\ d[j].n \in names}

MissingEndDocs ==
    UNION {{SubSeq(d, 1, j - 1) \o Drop(d, j) :
                j \in EndsOf(d, CheckedEnds \cup ClosedByDecodeElement)} : d \in NestDocs}

ExtraDocs ==
    UNION {{SubSeq(d, 1, j) \o X \o Drop(d, j) :
                j \in EndsOf(d, CheckedEnds \cup ClosedByDecodeElement)} : d \in NestDocs}
    \cup UNION {{SubSeq(d, 1, j - 1) \o X \o Drop(d, j - 1) :
                j \in EndsOf(d, CheckedEnds)} : d \in NestDocs}

\* documents in which the value of the first <param> fails to decode, followed
\* by every sequence of up to MaxTail tokens
MaxTail == 3

FailingValues ==
    { <<StartTok("params")>>,
      <<StartTok("methodResponse")>>,
      <<StartTok("foo")>>,
      Elem("int", <<"a">>),
      <<StartTok("value")>> \o Elem("int", <<"a">>),
      <<StartTok("struct"), StartTok("member")>> }

TailTokens ==
    { EndTok("value"), EndTok("param"), EndTok("params"), EndTok("methodResponse"),
      EndTok("foo"), StartTok("param"), TextTok(<<"h", "i">>) }

MaskDocs ==
    { <<StartTok("methodResponse"), StartTok("params"), StartTok("param")>> \o v \o tail :
        v \in FailingValues, tail \in SeqsUpTo(TailTokens, MaxTail) }

Docs == LeafDocs \cup ShapeDocs \cup FaultDocs \cup StructDocs \cup ArrayDocs
        \cup HardDocs \cup ParamDocs \cup EnvelopeDocs \cup NestDocs \cup MissingEndDocs
        \cup ExtraDocs \cup MaskDocs

(***************************************************************************)
(* The program: a call of Marshal whose output, if it is complete, is      *)
(* handed to Unmarshal; or a call of Unmarshal on a document received.     *)
(***************************************************************************)
VARIABLES
    phase,   \* "start", "written", "failed", "panicked", "received", "decoded"
    src,     \* "call": wire is what Marshal wrote; "doc": wire was received
    job,     \* the call of Marshal
    wire,    \* the document, as tokens
    rerr,    \* the error the reader gives at the end of the document
    mres,    \* what Marshal returned: [e, panic], and how it left the writer
    ures,    \* what Unmarshal returned
    esc,     \* a call of xmlEscape: [in, out, done]
    rt,      \* a call of GetTorrents: [view, answer, torrents, failed, panic]
    cc,      \* two calls that run at the same time
    er,      \* the errors made with Errorf2 and a call of ErrEq on two of them
    run,     \* a call of Unmarshal taken step by step
    ac       \* a call of one of the accessors of RTorrent

vars == <<phase, src, job, wire, rerr, mres, ures, esc, rt, cc, er, run, ac>>

NoJob == Job(<<>>, <<>>, -1)
NoErrs == [kind |-> "none"]
NoRun == [kind |-> "none"]
NoAccess == [kind |-> "none"]
NoMarshal == [e |-> NilErr, panic |-> FALSE, failed |-> FALSE, after |-> 0]
NoUnmarshal ==
    [name |-> <<>>, params |-> <<>>, fault |-> NoFault, e |-> NilErr, st |-> newParser(ErrEOF)]
NoEscape == [in |-> <<>>, out |-> <<>>, done |-> FALSE]
NoAnswer == [doc |-> <<>>, rows |-> <<>>]
NoTorrents ==
    [view |-> <<>>, answer |-> NoAnswer, torrents |-> <<>>, failed |-> FALSE, panic |-> FALSE]
NoConc == [kind |-> "none"]

Init ==
    /\ \/ phase = "start" /\ src = "call" /\ job \in Jobs /\ wire = <<>> /\ rerr = ErrEOF
       \/ phase = "received" /\ src = "doc" /\ job = NoJob /\ wire \in Docs /\ rerr = ErrEOF
       \/ /\ phase = "received" /\ src = "doc" /\ job = NoJob
          /\ wire \in CutDocs /\ rerr \in {ErrEOF, ErrIO}
    /\ mres = NoMarshal
    /\ ures = NoUnmarshal
    /\ esc = NoEscape
    /\ rt = NoTorrents
    /\ cc = NoConc
    /\ er = NoErrs
    /\ run = NoRun
    /\ ac = NoAccess

\* Marshal(w, job.name, job.args...) on a fresh writer
DoMarshal ==
    /\ phase = "start"
    /\ \E ord \in KeyOrders :
          LET r == Marshal(NewWriter(job.left), job.name, job.args, ord)
          IN  /\ wire' = r.w.out
              /\ mres' = [e |-> r.e, panic |-> r.panic,
                           failed |-> r.w.failed, after |-> r.w.after]
              /\ phase' = IF r.panic THEN "panicked"
                          ELSE IF r.e # NilErr THEN "failed" ELSE "written"
    /\ UNCHANGED <<src, job, rerr, ures, esc, rt, cc, er, run, ac>>

\* Unmarshal(r) on the document
DoUnmarshal ==
    /\ phase \in {"written", "received"}
    /\ ures' = Unmarshal(wire, rerr)
    /\ phase' = "decoded"
    /\ UNCHANGED <<src, job, wire, rerr, mres, esc, rt, cc, er, run, ac>>

Next == DoMarshal \/ DoUnmarshal

Spec == Init /\ [][Next]_vars

(***************************************************************************)
(* xmlEscape on its own: a string is chosen and escaped.                   *)
(***************************************************************************)
MaxEscLen == 3

EscChars == {"<", ">", "\"", "'", "&", "a", ";", NUL}

\* the strings of up to MaxEscLen characters, and the five entities as input
EscInputs ==
    SeqsUpTo(EscChars, MaxEscLen)
    \cup {xmlSpecial(c) : c \in EscChars}
    \cup {<<"a">> \o xmlSpecial(c) \o <<c>> : c \in EscChars}

InitEscape ==
    /\ phase = "idle" /\ src = "none" /\ job = NoJob /\ wire = <<>> /\ rerr = ErrEOF
    /\ mres = NoMarshal
    /\ ures = NoUnmarshal
    /\ esc \in {[in |-> s, out |-> <<>>, done |-> FALSE] : s \in EscInputs}
    /\ rt = NoTorrents
    /\ cc = NoConc
    /\ er = NoErrs
    /\ run = NoRun
    /\ ac = NoAccess

DoEscape ==
    /\ ~esc.done
    /\ esc' = [in |-> esc.in, out |-> xmlEscape(esc.in), done |-> TRUE]
    /\ UNCHANGED <<phase, src, job, wire, rerr, mres, ures, rt, cc, er, run, ac>>

SpecEscape == InitEscape /\ [][DoEscape]_vars

(***************************************************************************)
(* The rtorrent package: GetTorrents over Client.Call.  A call is two      *)
(* steps, the request marshalled and posted, and the response unmarshalled *)
(* and turned into the result.                                             *)
(***************************************************************************)
ViewMain == <<"m", "a", "i", "n">>
ViewStarted == <<"s", "t", "a", "r", "t", "e", "d">>
ViewStopped == <<"s", "t", "o", "p", "p", "e", "d">>
ViewHashing == <<"h", "a", "s", "h", "i", "n", "g">>
ViewSeeding == <<"s", "e", "e", "d", "i", "n", "g">>
DName == <<"d", ".", "n", "a", "m", "e">>
DLabel == <<"d", ".", "c", "u", "s", "t", "o", "m", "1">>
DSizeInBytes == <<"d", ".", "s", "y", "z", "e", "_", "b", "y", "t", "e", "s">>
DHash == <<"d", ".", "h", "a", "s", "h">>
DBasePath == <<"d", ".", "b", "a", "s", "e", "_", "p", "a", "t", "h">>
DIsActive == <<"d", ".", "i", "s", "_", "a", "c", "t", "i", "v", "e">>
DRatio == <<"d", ".", "r", "a", "t", "i", "o">>
DComplete == <<"d", ".", "c", "o", "m", "p", "l", "e", "t", "e">>

MultiCall2 == <<"d", ".", "m", "u", "l", "t", "i", "c", "a", "l", "l", "2">>

Views == {ViewMain, ViewStarted, ViewStopped, ViewHashing, ViewSeeding}

\* Field.Query
Query(f) == f \o <<"=">>

\* the arguments GetTorrents gives to Call
GetTorrentsArgs(view) ==
    <<VStr(<<>>), VStr(view), VStr(Query(DName)), VStr(Query(DSizeInBytes)), VStr(Query(DHash)),
      VStr(Query(DLabel)), VStr(Query(DBasePath)), VStr(Query(DIsActive)),
      VStr(Query(DComplete)), VStr(Query(DRatio))>>

IsPositive(i) == ~i.neg /\ i.mag # <<>>

\* the type assertions GetTorrents makes on a row
RowOk(row) ==
    /\ row.k = "arr" /\ Len(row.a) >= 8
    /\ \A j \in {1, 3, 4, 5} : row.a[j].k = "str"
    /\ \A j \in {2, 7, 8} : row.a[j].k = "int"

\* Ratio is float64(column 7) / 1000: kept as the thousandths
TorrentOf(row) ==
    [Hash |-> row.a[3].s, Name |-> row.a[1].s, Path |-> row.a[5].s, Size |-> row.a[2].i,
     Label |-> row.a[4].s, Completed |-> IsPositive(row.a[7].i), Ratio |-> row.a[8].i]

\* the two loops of GetTorrents over results: [torrents, panic]
RECURSIVE RowsOf(_)
RowsOf(results) ==
    IF results = <<>> THEN <<>>
    ELSE Head(results).a \o RowsOf(Tail(results))

BuildTorrents(results) ==
    IF \E j \in 1..Len(results) : results[j].k # "arr" THEN [torrents |-> <<>>, panic |-> TRUE]
    ELSE With(RowsOf(results), LAMBDA rows :
         IF \E j \in 1..Len(rows) : ~RowOk(rows[j]) THEN [torrents |-> <<>>, panic |-> TRUE]
         ELSE [torrents |-> [j \in 1..Len(rows) |-> TorrentOf(rows[j])], panic |-> FALSE])

\* Client.Call after the POST: [val, failed], failed telling that err is not nil
CallResult(u) == [val |-> u.params, failed |-> u.e # NilErr \/ u.fault # NoFault]

\* The server's answers: rows of the eight columns asked for, all of them
\* different within a row; a fault; and a row that is not one.
IntElem(n) == Elem("int", FormatInt(n))
StrElem(s) == Elem("string", s)

RowXML(i, complete) ==
    Val(Array(Val(StrElem(<<"n", i>>)) \o Val(IntElem(PosInt(<<DigitOf(i)>>)))
              \o Val(StrElem(<<"h", i>>)) \o Val(StrElem(<<"l", i>>))
              \o Val(StrElem(<<"p", i>>)) \o Val(IntElem(PosInt(<<1>>)))
              \o Val(IntElem(complete)) \o Val(IntElem(PosInt(<<1, 5, 0, 0>>)))))

CompleteValues == {NegInt(<<1>>), Zero, PosInt(<<1>>), PosInt(<<2>>)}

\* a row as the server holds it: [i, complete]
ServerRows == {[i |-> i, complete |-> c] : i \in {"3", "4"}, c \in CompleteValues}

MaxRows == 2

TableDoc(rows) ==
    Resp(Param(Val(Array(Concat([j \in 1..Len(rows) |-> RowXML(rows[j].i, rows[j].complete)])))))

\* [doc, rows]
Answers ==
    {[doc |-> TableDoc(rows), rows |-> rows] : rows \in SeqsUpTo(ServerRows, MaxRows)}
    \cup {[doc |-> FaultDoc(Val(Struct(Member(FaultCodeName, Int1)
                                       \o Member(FaultStringName, StrElem(Bad)))),
                            <<EndTok("fault"), EndTok("methodResponse")>>),
           rows |-> <<>>],
          [doc |-> Resp(Param(Val(Array(Val(Array(Val(Int1))))))), rows |-> <<>>],
          [doc |-> Resp(Param(Val(Int1))), rows |-> <<>>]}

InitTorrents ==
    /\ phase = "start" /\ src = "torrents" /\ job = NoJob /\ wire = <<>> /\ rerr = ErrEOF
    /\ mres = NoMarshal
    /\ ures = NoUnmarshal
    /\ esc = NoEscape
    /\ rt \in {[NoTorrents EXCEPT !.view = v, !.answer = a] : v \in Views, a \in Answers}
    /\ cc = NoConc
    /\ er = NoErrs
    /\ run = NoRun
    /\ ac = NoAccess

\* GetTorrents up to the POST: the request is marshalled
GetTorrentsPost ==
    /\ phase = "start" /\ src = "torrents"
    /\ \E ord \in KeyOrders :
          \E r \in {Marshal(NewWriter(-1), MultiCall2, GetTorrentsArgs(rt.view), ord)} :
              /\ job' = Job(MultiCall2, GetTorrentsArgs(rt.view), -1)
              /\ wire' = r.w.out
              /\ mres' = [e |-> r.e, panic |-> r.panic,
                           failed |-> r.w.failed, after |-> r.w.after]
    /\ phase' = "posted"
    /\ UNCHANGED <<src, rerr, ures, esc, rt, cc, er, run, ac>>

\* GetTorrents from the response on
GetTorrentsReturn ==
    /\ phase = "posted" /\ src = "torrents"
    /\ \E u \in {Unmarshal(rt.answer.doc, rerr)} :
          /\ ures' = u
          /\ rt' = IF CallResult(u).failed
                    THEN [rt EXCEPT !.failed = TRUE]
                    ELSE With(BuildTorrents(u.params), LAMBDA b :
                              [rt EXCEPT !.torrents = b.torrents, !.panic = b.panic])
    /\ phase' = "returned"
    /\ UNCHANGED <<src, job, wire, rerr, mres, esc, cc, er, run, ac>>

NextTorrents == GetTorrentsPost \/ GetTorrentsReturn

SpecTorrents == InitTorrents /\ [][NextTorrents]_vars


(***************************************************************************)
(* Two calls at the same time.  A call of Unmarshal is run in steps: a     *)
(* step is one read of a token from the decoder, or the code between two   *)
(* reads up to the next call of state.token, DecodeElement or parseValue.  *)
(* What a call keeps between its steps is the stack of the places it waits *)
(* at with the local variables of each (fr), the loop it is in (op) and    *)
(* the result it is about to hand to the place on top (ev).  The state     *)
(* struct, with the decoder and its stream, is held apart from the call.   *)
(***************************************************************************)
\* the result of state.token or DecodeElement ("tok"), or of parseValue ("val")
NoEv == [k |-> "none", t |-> NoTok, body |-> <<>>, nv |-> VNil, e |-> NilErr]
TokEv(t, body, e) == [NoEv EXCEPT !.k = "tok", !.t = t, !.body = body, !.e = e]
ValEv(nv, e) == [NoEv EXCEPT !.k = "val", !.nv = nv, !.e = e]

\* a place a call waits at: typ and name as in Unmarshal, acc the params or
\* values gathered, key the member name, nv the value parsed; and, at a place
\* that waits for parseValue, what Parsed needs of that call: d0, had and se
At(at) ==
    [at |-> at, typ |-> "", name |-> <<>>, acc |-> <<>>, key |-> <<>>, nv |-> VNil,
     d0 |-> 0, had |-> NoTok, se |-> NoTok]

\* the loop a call is in: the Reading loop of state.token(typ, name) at the
\* token t, or DecodeElement at depth with the text acc.  had, from and reads
\* are kept for the history of the parser: what the pushback slot held when
\* state.token was entered, the number of tokens the decoder had given then,
\* and the number the Reading loop took.
Idle ==
    [k |-> "idle", typ |-> tokStart, name |-> "", t |-> NoTok, depth |-> 0, acc |-> <<>>,
     had |-> NoTok, from |-> 0, reads |-> 0]

\* the parser with the call of state.token that op is added to its history
Traced(st, op, reads, t, e) ==
    [st EXCEPT !.trace = Append(@, Called(op.typ, op.name, op.had, reads, t, e, st.last))]

NoCall == [op |-> Idle, fr |-> <<>>, ev |-> NoEv, n |-> 0, done |-> FALSE, res |-> NoUnmarshal]

\* state.token(typ, name) is entered: the pushback slot is taken and emptied
Enter(c, st, typ, name, frame) ==
    [c |-> [c EXCEPT !.fr = Append(@, frame), !.ev = NoEv,
                     !.op = [Idle EXCEPT !.k = "reading", !.typ = typ, !.name = name,
                                         !.t = st.last, !.had = st.last,
                                         !.from = st.reads]],
     st |-> [st EXCEPT !.last = NoTok]]

\* st.parseValue() is entered from the place frame
EnterValue(c, st, frame) ==
    Enter([c EXCEPT !.fr = Append(@, [frame EXCEPT !.d0 = Len(st.stk), !.had = st.last,
                                                   !.se = NoTok])],
          st, tokStart, "", At("parseValue"))

\* the getStart of parseValue gave the start element t
Started(c, t) == [c EXCEPT !.fr[Len(c.fr)].se = t]

\* parseValue returns
Leave(c, st, nv, e) ==
    With(c.fr[Len(c.fr)], LAMBDA f :
    [c |-> [c EXCEPT !.ev = ValEv(nv, e), !.op = Idle],
     st |-> IF f.se = NoTok THEN st
            ELSE [st EXCEPT !.vals = Append(@, Parsed(f.se, f.d0, f.had, st, e))]])

\* Unmarshal returns
Finish(c, st, name, params, fault, e) ==
    [c |-> [c EXCEPT !.ev = NoEv, !.op = Idle, !.done = TRUE,
                     !.res = Returned(name, params, fault, e, st)],
     st |-> st]

\* the checks of the fault branch that come before checkLast("fault")
FaultShaped(v) ==
    /\ v.k = "map"
    /\ FaultCodeName \in DOMAIN v.m /\ v.m[FaultCodeName].k = "int"
    /\ FaultStringName \in DOMAIN v.m /\ v.m[FaultStringName].k = "str"

\* the code of parseValue that follows the event r at the place top
ResumeValue(c, st, top, r) ==
    CASE top.at = "parseValue" ->
            IF r.e # NilErr
            THEN Leave(c, st, VNil, IF ErrEq(r.e, errNotStartElement) THEN NilErr ELSE r.e)
            ELSE With(Started(c, r.t), LAMBDA c1 :
                 CASE r.t.n = "value" -> EnterValue(c1, st, At("value"))
                   [] r.t.n \in SimpleTags ->
                        [c |-> [c1 EXCEPT !.fr = Append(@, [At("simple") EXCEPT !.typ = r.t.n]),
                                          !.ev = NoEv,
                                          !.op = [Idle EXCEPT !.k = "decoding", !.t = r.t]],
                         st |-> [st EXCEPT !.last = NoTok, !.lost = @ \/ st.last # NoTok]]
                   [] r.t.n = "struct" ->
                        Enter(c1, st, tokStart, "member", [At("member") EXCEPT !.acc = EmptyMap])
                   [] r.t.n = "array" -> Enter(c1, st, tokStart, "data", At("data"))
                   [] OTHER -> Leave(c1, st, VNil, NewErr("cannot parse unknown tag")))
      [] top.at = "value" ->
            IF r.e # NilErr THEN Leave(c, st, r.nv, r.e)
            ELSE Enter(c, st, tokStop, "value", [At("/value") EXCEPT !.nv = r.nv])
      [] top.at = "/value" -> Leave(c, st, top.nv, r.e)
      [] top.at = "simple" ->
            IF r.e # NilErr THEN Leave(c, st, VNil, r.e)
            ELSE With(ParseSimple(top.typ, r.body), LAMBDA x : Leave(c, st, x.v, x.e))
      \* the struct loop
      [] top.at = "member" ->
            IF r.e # NilErr THEN
                IF ErrEq(r.e, errNotStartElement)
                THEN Enter(c, st, tokStop, "struct", [top EXCEPT !.at = "/struct"])
                ELSE Leave(c, st, VMap(top.acc), r.e)
            ELSE Enter(c, st, tokText, "name", [top EXCEPT !.at = "name"])
      [] top.at = "name" ->
            IF r.e # NilErr THEN Leave(c, st, VMap(top.acc), r.e)
            ELSE Enter(c, st, tokStart, "value",
                       [top EXCEPT !.at = "member value", !.key = r.body])
      [] top.at = "member value" ->
            IF r.e # NilErr THEN Leave(c, st, VMap(top.acc), r.e)
            ELSE EnterValue(c, st, [top EXCEPT !.at = "member parsed"])
      [] top.at = "member parsed" ->
            With(MapPut(top.acc, top.key, r.nv), LAMBDA values :
            IF r.e # NilErr THEN Leave(c, st, VMap(values), r.e)
            ELSE Enter(c, st, tokStop, "value",
                       [top EXCEPT !.at = "member /value", !.acc = values]))
      [] top.at = "member /value" ->
            IF r.e # NilErr THEN Leave(c, st, VMap(top.acc), r.e)
            ELSE Enter(c, st, tokStop, "member", [top EXCEPT !.at = "/member"])
      [] top.at = "/member" ->
            IF r.e # NilErr THEN Leave(c, st, VMap(top.acc), r.e)
            ELSE Enter(c, st, tokStart, "member", [top EXCEPT !.at = "member"])
      [] top.at = "/struct" -> Leave(c, st, VMap(top.acc), r.e)
      \* the array loop
      [] top.at = "data" ->
            IF r.e # NilErr THEN Leave(c, st, VNil, r.e)
            ELSE Enter(c, st, tokStart, "value", At("item"))
      [] top.at = "item" ->
            IF r.e # NilErr THEN
                IF ErrEq(r.e, errNotStartElement)
                THEN Enter(c, st, tokStop, "data", [top EXCEPT !.at = "/data"])
                ELSE Leave(c, st, VNil, r.e)
            ELSE EnterValue(c, st, [top EXCEPT !.at = "item parsed"])
      [] top.at = "item parsed" ->
            IF r.e # NilErr THEN Leave(c, st, VNil, r.e)
            ELSE Enter(c, st, tokStop, "value", [top EXCEPT !.at = "item /value", !.nv = r.nv])
      [] top.at = "item /value" ->
            IF r.e # NilErr THEN Leave(c, st, VNil, r.e)
            ELSE Enter(c, st, tokStart, "value",
                       [top EXCEPT !.at = "item", !.acc = Append(@, top.nv), !.nv = VNil])
      [] top.at = "/data" ->
            IF r.e # NilErr THEN Leave(c, st, VArr(top.acc), r.e)
            ELSE Enter(c, st, tokStop, "array", [top EXCEPT !.at = "/array"])
      [] top.at = "/array" -> Leave(c, st, VArr(top.acc), r.e)

\* the code of Unmarshal that follows the event r at the place top
ResumeUnmarshal(doc, c, st, top, r) ==
    CASE top.at = "methodResponse" ->
            IF ErrEq(r.e, errNameMismatch)
            THEN Enter(c, st, tokText, "methodName", [At("methodName") EXCEPT !.typ = "methodCall"])
            ELSE Enter(c, st, tokStart, "params", [At("params") EXCEPT !.typ = "methodResponse"])
      [] top.at = "methodName" ->
            IF r.e # NilErr THEN Finish(c, st, r.body, <<>>, NoFault, r.e)
            ELSE Enter(c, st, tokStart, "params", [top EXCEPT !.at = "params", !.name = r.body])
      [] top.at = "params" ->
            IF r.e # NilErr THEN
                IF ErrEq(r.e, errNameMismatch) /\ r.t.k = "start" /\ r.t.n = "fault"
                THEN EnterValue(c, st, [top EXCEPT !.at = "fault"])
                ELSE Finish(c, st, top.name, <<>>, NoFault, r.e)
            ELSE Enter(c, st, tokStart, "param", [top EXCEPT !.at = "param"])
      [] top.at = "fault" ->
            IF r.e # NilErr THEN Finish(c, st, top.name, <<>>, NoFault, r.e)
            ELSE IF FaultShaped(r.nv)
            THEN Enter(c, st, tokStop, "fault", [top EXCEPT !.at = "/fault", !.nv = r.nv])
            ELSE With(faultOf(doc, st, top.name, r.nv), LAMBDA f :
                 Finish(c, st, f.name, f.params, f.fault, f.e))
      [] top.at = "/fault" ->
            Finish(c, st, top.name, <<>>,
                   VFault(top.nv.m[FaultCodeName].i, top.nv.m[FaultStringName].s), r.e)
      \* the param loop
      [] top.at = "param" ->
            IF r.e # NilErr THEN
                IF ErrEq(r.e, errNotStartElement)
                THEN Enter(c, st, tokStop, "params", [top EXCEPT !.at = "/params"])
                ELSE Finish(c, st, top.name, top.acc, NoFault, r.e)
            ELSE EnterValue(c, st, [top EXCEPT !.at = "param parsed"])
      [] top.at = "param parsed" ->
            IF r.e # NilErr
            THEN Enter(c, [st EXCEPT !.broke = TRUE], tokStop, "params",
                       [top EXCEPT !.at = "/params"])
            ELSE Enter(c, st, tokStop, "param", [top EXCEPT !.at = "/param", !.nv = r.nv])
      [] top.at = "/param" ->
            IF r.e # NilErr THEN Finish(c, st, top.name, Append(top.acc, top.nv), NoFault, r.e)
            ELSE Enter(c, st, tokStart, "param",
                       [top EXCEPT !.at = "param", !.acc = Append(@, top.nv), !.nv = VNil])
      [] top.at = "/params" ->
            IF r.e # NilErr THEN Finish(c, st, top.name, top.acc, NoFault, r.e)
            ELSE Enter(c, st, tokStop, top.typ, [top EXCEPT !.at = "/envelope"])
      [] top.at = "/envelope" -> Finish(c, st, top.name, top.acc, NoFault, r.e)
      [] OTHER -> ResumeValue(c, st, top, r)

\* the event is handed to the place on top of the stack
Resume(doc, c, st) ==
    ResumeUnmarshal(doc, [c EXCEPT !.fr = SubSeq(@, 1, Len(@) - 1)], st, c.fr[Len(c.fr)], c.ev)

\* the Reading loop that looks at a token of the decoder and leaves it there
ReadStepStuck(doc, c, st) ==
    IF c.op.t.k \in {"start", "end"} THEN
        IF c.op.typ = tokText /\ c.op.t.k = "start"
        THEN [c |-> [c EXCEPT !.op.k = "decoding", !.op.reads = st.reads - c.op.from],
              st |-> st]
        ELSE With(tokenSwitch(doc, st, c.op.t, c.op.typ, c.op.name), LAMBDA r :
             [c |-> [c EXCEPT !.op = Idle, !.ev = TokEv(r.t, r.body, r.e)],
              st |-> Traced(r.st, c.op, st.reads - c.op.from, r.t, r.e)])
    ELSE With(DecoderToken(doc, st), LAMBDA r :
         IF r.e # NilErr
         THEN [c |-> [c EXCEPT !.op = Idle, !.ev = TokEv(NoTok, <<>>, r.e)],
               st |-> Traced(r.st, c.op, r.st.reads - c.op.from, NoTok, r.e)]
         ELSE IF r.t.k \in {"start", "end"}
         THEN [c |-> [c EXCEPT !.op.t = r.t], st |-> r.st]
         ELSE [c |-> c, st |-> st])

\* one turn of the Reading loop of state.token, or the switch that follows it
ReadStep(doc, c, st) ==
    IF c.op.t.k \in {"start", "end"} THEN
        IF c.op.typ = tokText /\ c.op.t.k = "start"
        THEN [c |-> [c EXCEPT !.op.k = "decoding", !.op.reads = st.reads - c.op.from],
              st |-> st]
        ELSE With(tokenSwitch(doc, st, c.op.t, c.op.typ, c.op.name), LAMBDA r :
             [c |-> [c EXCEPT !.op = Idle, !.ev = TokEv(r.t, r.body, r.e)],
              st |-> Traced(r.st, c.op, st.reads - c.op.from, r.t, r.e)])
    ELSE With(DecoderToken(doc, st), LAMBDA r :
         IF r.e # NilErr
         THEN [c |-> [c EXCEPT !.op = Idle, !.ev = TokEv(NoTok, <<>>, r.e)],
               st |-> Traced(r.st, c.op, r.st.reads - c.op.from, NoTok, r.e)]
         ELSE [c |-> [c EXCEPT !.op.t = r.t],
               st |-> [r.st EXCEPT !.dropped = @ \/ (r.t.k = "text" /\ ~AllSpace(r.t.s))]])

\* DecodeElement returns e: to state.token(tokText, name), which returns it, or
\* to parseValue
DecodeReturn(c, st, body, e) ==
    [c |-> [c EXCEPT !.op = Idle, !.ev = TokEv(c.op.t, body, e)],
     st |-> IF c.op.typ = tokText THEN Traced(st, c.op, c.op.reads, c.op.t, e) ELSE st]

\* one token of DecodeElement
DecodeStep(doc, c, st) ==
    With(DecoderToken(doc, st), LAMBDA r :
    IF r.e # NilErr THEN DecodeReturn(c, r.st, <<>>, r.e)
    ELSE CASE r.t.k = "start" ->
                [c |-> [c EXCEPT !.op.depth = @ + 1], st |-> [r.st EXCEPT !.dropped = TRUE]]
           [] r.t.k = "end" ->
                IF c.op.depth = 0 THEN DecodeReturn(c, r.st, c.op.acc, NilErr)
                ELSE [c |-> [c EXCEPT !.op.depth = @ - 1], st |-> r.st]
           [] r.t.k = "text" ->
                [c |-> [c EXCEPT !.op.acc = IF c.op.depth = 0 THEN @ \o r.t.s ELSE @],
                 st |-> r.st]
           [] OTHER -> [c |-> c, st |-> r.st])

\* a step of a call of Unmarshal that holds the parser st: [c, st]
StepOf(doc, c, st) ==
    IF c.ev.k # "none" THEN Resume(doc, c, st)
    ELSE IF c.op.k = "reading" THEN ReadStep(doc, c, st)
    ELSE DecodeStep(doc, c, st)

\* the step, counted
UnmarshalStep(doc, c, st) ==
    With(StepOf(doc, c, st), LAMBDA r : [c |-> [r.c EXCEPT !.n = @ + 1], st |-> r.st])

\* Unmarshal is entered with the parser st: getStart("methodResponse") is called
UnmarshalEnter(st) == Enter(NoCall, st, tokStart, "methodResponse", At("methodResponse"))

\* the parser a call of Unmarshal holds, were there one for the whole package
ParserShared(p) == 1

\* the parser a call of Unmarshal holds: newParser makes one for every call,
\* on a decoder that Unmarshal makes for the call's own stream
ParserOf(p) == p

\* Marshal run alone on a writer that takes every Write
MarshalAlone(in) == Marshal(NewWriter(-1), in.job.name, in.job.args, in.ord)

\* a step of a call of Marshal, the call having made c.n Writes: the next
\* Write on its writer w, or its return.  [c, w]
MarshalStep(in, c, w) ==
    With(MarshalAlone(in), LAMBDA a :
    IF c.n < Len(a.w.log)
    THEN With(Write(w, a.w.log[c.n + 1]), LAMBDA r :
         IF r.e # NilErr THEN [c |-> [c EXCEPT !.done = TRUE, !.e = r.e], w |-> r.w]
         ELSE [c |-> [c EXCEPT !.n = @ + 1], w |-> r.w])
    ELSE [c |-> [c EXCEPT !.done = TRUE, !.e = a.e, !.panic = a.panic], w |-> w])

\* the streams two calls of Unmarshal read: [doc, rerr]
ConcInputs ==
    {[doc |-> d, rerr |-> ErrEOF] :
        d \in { Resp(Param(Val(Int1)) \o Param(Val(Int2))),
                Call(<<"m">>, Param(Val(Int1)) \o Param(Val(Array(Val(Int2))))),
                FaultDoc(Val(Struct(Member(FaultCodeName, Int1)
                                    \o Member(FaultStringName, Elem("string", Bad)))),
                         <<EndTok("fault"), EndTok("methodResponse")>>) }}
    \cup {[doc |-> SubSeq(Resp(Param(Val(Int1)) \o Param(Val(Int2))), 1, 7), rerr |-> ErrIO]}

\* the calls of Marshal two callers make: [job, ord]
ConcJobs ==
    {[job |-> Job(<<"m">>, <<VStr(<<"a">>), VInt(PosInt(<<7>>))>>, -1), ord |-> <<Key1, Key2>>],
     [job |-> Job(<<>>, <<VArr(<<VInt(Zero), VBool(TRUE)>>)>>, -1), ord |-> <<Key1, Key2>>],
     [job |-> Job(<<>>, <<VFault(PosInt(<<7>>), Bad)>>, -1), ord |-> <<Key1, Key2>>],
     [job |-> Job(<<"m">>, <<VBool(TRUE), [k |-> "func"], VBool(TRUE)>>, -1),
      ord |-> <<Key1, Key2>>]}
    \cup {[job |-> Job(<<>>, <<VMap(MapPut(MapPut(EmptyMap, Key1, VInt(Zero)), Key2,
                                           VBool(TRUE)))>>, -1),
            ord |-> ord] : ord \in KeyOrders}

NoMarshalCall == [n |-> 0, done |-> FALSE, e |-> NilErr, panic |-> FALSE]

\* two calls of Unmarshal, each entered on its own stream
UnmarshalPair(a, b) ==
    [kind |-> "unmarshal", inputs |-> <<a, b>>,
     states |-> <<[doc |-> a.doc, st |-> UnmarshalEnter(newParser(a.rerr)).st],
                  [doc |-> b.doc, st |-> UnmarshalEnter(newParser(b.rerr)).st]>>,
     calls |-> <<UnmarshalEnter(newParser(a.rerr)).c, UnmarshalEnter(newParser(b.rerr)).c>>,
     mixed |-> FALSE]

\* two calls of Marshal, each on its own writer
MarshalPair(a, b) ==
    [kind |-> "marshal", inputs |-> <<a, b>>,
     states |-> <<NewWriter(-1), NewWriter(-1)>>,
     calls |-> <<NoMarshalCall, NoMarshalCall>>,
     mixed |-> FALSE]

InitConc ==
    /\ phase = "idle" /\ src = "none" /\ job = NoJob /\ wire = <<>> /\ rerr = ErrEOF
    /\ mres = NoMarshal
    /\ ures = NoUnmarshal
    /\ esc = NoEscape
    /\ rt = NoTorrents
    /\ er = NoErrs
    /\ run = NoRun
    /\ ac = NoAccess
    /\ \/ cc \in {UnmarshalPair(a, b) : a \in ConcInputs, b \in ConcInputs}
       \/ cc \in {MarshalPair(a, b) : a \in ConcJobs, b \in ConcJobs}

\* the other call has begun and has not returned
Busy(p) == cc.calls[p].n > 0 /\ ~cc.calls[p].done

\* a step of the call p of Unmarshal
UnmarshalTurn(p) ==
    /\ cc.kind = "unmarshal" /\ ~cc.calls[p].done
    /\ \E r \in {UnmarshalStep(cc.states[ParserOf(p)].doc, cc.calls[p],
                               cc.states[ParserOf(p)].st)} :
          cc' = [cc EXCEPT !.calls[p] = r.c, !.states[ParserOf(p)].st = r.st,
                           !.mixed = @ \/ Busy(3 - p)]
    /\ UNCHANGED <<phase, src, job, wire, rerr, mres, ures, esc, rt, er, run, ac>>

\* a step of the call p of Marshal
MarshalTurn(p) ==
    /\ cc.kind = "marshal" /\ ~cc.calls[p].done
    /\ \E r \in {MarshalStep(cc.inputs[p], cc.calls[p], cc.states[p])} :
          cc' = [cc EXCEPT !.calls[p] = r.c, !.states[p] = r.w,
                           !.mixed = @ \/ Busy(3 - p)]
    /\ UNCHANGED <<phase, src, job, wire, rerr, mres, ures, esc, rt, er, run, ac>>

NextConc == \E p \in 1..2 : UnmarshalTurn(p) \/ MarshalTurn(p)

SpecConc == InitConc /\ [][NextConc]_vars

(***************************************************************************)
(* Errorf2 and ErrEq on their own.  Errorf2 returns a pointer to a new     *)
(* errorStruct, so two of them are the same error only if they are one     *)
(* allocation: at tells the allocations apart.  ErrEq compares two         *)
(* interface values with ==, which panics when both hold a value of one    *)
(* dynamic type that cannot be compared (a slice type, as                  *)
(* go/scanner.ErrorList).                                                  *)
(***************************************************************************)
MaxWraps == 2

Messages == {"required <a>", "required <b>"}

Sentinels == {errNotStartElement, errNameMismatch, errNotEndElement, ErrUnsupported}

\* an error of a slice type
ErrList == NewErr("scanner.ErrorList")

Uncomparable == {ErrList}

\* &errorStruct{main: err, message: ...}, the at-th one allocated
Allocated(es, at) == [wrap |-> TRUE, id |-> es.id, main |-> es.main, at |-> at]

\* maina == mainb panics
ErrEqPanics(a, b) == MainOf(a) \in Uncomparable /\ MainOf(b) \in Uncomparable

\* the call ErrEq(a, b): it panics, or returns v
ErrEqCall(a, b) ==
    [a |-> a, b |-> b, panic |-> ErrEqPanics(a, b), v |-> ~ErrEqPanics(a, b) /\ ErrEq(a, b)]

\* the errors at hand: nil, the sentinels, an error of a slice type, and the
\* errorStructs made so far
Known == {NilErr} \cup Sentinels \cup Uncomparable \cup {er.made[j] : j \in 1..Len(er.made)}

InitErr ==
    /\ phase = "idle" /\ src = "none" /\ job = NoJob /\ wire = <<>> /\ rerr = ErrEOF
    /\ mres = NoMarshal
    /\ ures = NoUnmarshal
    /\ esc = NoEscape
    /\ rt = NoTorrents
    /\ cc = NoConc
    /\ run = NoRun
    /\ ac = NoAccess
    /\ er = [kind |-> "errors", made |-> <<>>, called |-> FALSE,
             eq |-> ErrEqCall(NilErr, NilErr), rev |-> ErrEqCall(NilErr, NilErr)]

\* Errorf2(e, format, a...)
DoErrorf2 ==
    /\ er.kind = "errors" /\ ~er.called
    /\ Len(er.made) < MaxWraps
    /\ \E e \in Known, msg \in Messages :
          er' = [er EXCEPT !.made = Append(@, Allocated(Errorf2(e, msg), Len(@) + 1))]
    /\ UNCHANGED <<phase, src, job, wire, rerr, mres, ures, esc, rt, cc, run, ac>>

\* ErrEq(a, b), and ErrEq(b, a), on two of the errors at hand, once
DoErrEq ==
    /\ er.kind = "errors" /\ ~er.called
    /\ \E a \in Known, b \in Known :
          er' = [er EXCEPT !.called = TRUE, !.eq = ErrEqCall(a, b), !.rev = ErrEqCall(b, a)]
    /\ UNCHANGED <<phase, src, job, wire, rerr, mres, ures, esc, rt, cc, run, ac>>

NextErr == DoErrorf2 \/ DoErrEq

SpecErr == InitErr /\ [][NextErr]_vars

(***************************************************************************)
(* The accessors of RTorrent that return one string or one int: IP, Name,  *)
(* DownTotal, DownRate, UpTotal, UpRate.  Each calls Client.Call with its  *)
(* command and no argument and looks at the result.                        *)
(***************************************************************************)
IPCommand ==
    <<"n", "e", "t", "w", "o", "r", "k", ".", "b", "i", "n", "d", "_", "a", "d", "d",
      "r", "e", "s", "s">>

NameCommand ==
    <<"s", "y", "s", "t", "e", "m", ".", "h", "o", "s", "t", "n", "a", "m", "e">>

DownTotalCommand ==
    <<"t", "h", "r", "o", "t", "t", "l", "e", ".", "g", "l", "o", "b", "a", "l", "_",
      "d", "o", "w", "n", ".", "t", "o", "t", "a", "l">>

DownRateCommand ==
    <<"t", "h", "r", "o", "t", "t", "l", "e", ".", "g", "l", "o", "b", "a", "l", "_",
      "d", "o", "w", "n", ".", "r", "a", "t", "e">>

UpTotalCommand ==
    <<"t", "h", "r", "o", "t", "t", "l", "e", ".", "g", "l", "o", "b", "a", "l", "_",
      "u", "p", ".", "t", "o", "t", "a", "l">>

UpRateCommand ==
    <<"t", "h", "r", "o", "t", "t", "l", "e", ".", "g", "l", "o", "b", "a", "l", "_",
      "u", "p", ".", "r", "a", "t", "e">>

\* if totals, ok := result.([]interface{}); ok { result = totals[0] }, then
\* the assertion of the type wanted: [v, failed, panic].  The result of
\* Client.Call is the params of Unmarshal, a []interface{} (of any length, nil
\* too), so the first assertion succeeds whenever err is nil.
FirstOf(res, want) ==
    IF res.failed THEN [v |-> VNil, failed |-> TRUE, panic |-> FALSE]
    ELSE IF Len(res.val) = 0 THEN [v |-> VNil, failed |-> FALSE, panic |-> TRUE]
    ELSE IF res.val[1].k = want THEN [v |-> res.val[1], failed |-> FALSE, panic |-> FALSE]
    ELSE [v |-> VNil, failed |-> TRUE, panic |-> FALSE]

IP(res) == FirstOf(res, "str")
Name(res) == FirstOf(res, "str")
DownTotal(res) == FirstOf(res, "int")
DownRate(res) == FirstOf(res, "int")
UpTotal(res) == FirstOf(res, "int")
UpRate(res) == FirstOf(res, "int")

Accessors == {"IP", "Name", "DownTotal", "DownRate", "UpTotal", "UpRate"}

CommandOf(method) ==
    CASE method = "IP" -> IPCommand
      [] method = "Name" -> NameCommand
      [] method = "DownTotal" -> DownTotalCommand
      [] method = "DownRate" -> DownRateCommand
      [] method = "UpTotal" -> UpTotalCommand
      [] method = "UpRate" -> UpRateCommand

Access(method, res) ==
    CASE method = "IP" -> IP(res)
      [] method = "Name" -> Name(res)
      [] method = "DownTotal" -> DownTotal(res)
      [] method = "DownRate" -> DownRate(res)
      [] method = "UpTotal" -> UpTotal(res)
      [] method = "UpRate" -> UpRate(res)

\* what the server may answer: no parameter, one of each type, two, a fault,
\* and documents that do not decode
AccessAnswers ==
    { Resp(<<>>),
      Resp(Param(Val(StrElem(<<"h">>)))),
      Resp(Param(Val(Int1))),
      Resp(Param(Val(<<>>))),
      Resp(Param(Val(Array(Val(StrElem(<<"h">>)))))),
      Resp(Param(Val(Array(<<>>)))),
      Resp(Param(Val(Struct(Member(Key1, Int1))))),
      Resp(Param(Val(StrElem(<<"h">>))) \o Param(Val(Int1))),
      Resp(Param(Val(Int1)) \o Param(Val(StrElem(<<"h">>)))),
      FaultDoc(Val(Struct(Member(FaultCodeName, Int1)
                          \o Member(FaultStringName, StrElem(Bad)))),
               <<EndTok("fault"), EndTok("methodResponse")>>),
      <<StartTok("methodResponse"), StartTok("params")>>,
      <<>> }

InitAccess ==
    /\ phase = "start" /\ src = "access" /\ job = NoJob /\ wire = <<>> /\ rerr = ErrEOF
    /\ mres = NoMarshal
    /\ ures = NoUnmarshal
    /\ esc = NoEscape
    /\ rt = NoTorrents
    /\ cc = NoConc
    /\ er = NoErrs
    /\ run = NoRun
    /\ ac \in {[kind |-> "access", method |-> m, answer |-> a,
                 out |-> [v |-> VNil, failed |-> FALSE, panic |-> FALSE]] :
                m \in Accessors, a \in AccessAnswers}

\* an accessor up to the POST: the request is marshalled
AccessPost ==
    /\ phase = "start" /\ src = "access"
    /\ \E ord \in KeyOrders :
          \E r \in {Marshal(NewWriter(-1), CommandOf(ac.method), <<>>, ord)} :
              /\ job' = Job(CommandOf(ac.method), <<>>, -1)
              /\ wire' = r.w.out
              /\ mres' = [e |-> r.e, panic |-> r.panic,
                           failed |-> r.w.failed, after |-> r.w.after]
    /\ phase' = "posted"
    /\ UNCHANGED <<src, rerr, ures, esc, rt, cc, er, run, ac>>

\* an accessor from the response on
AccessReturn ==
    /\ phase = "posted" /\ src = "access"
    /\ \E u \in {Unmarshal(ac.answer, rerr)} :
          /\ ures' = u
          /\ ac' = [ac EXCEPT !.out = Access(ac.method, CallResult(u))]
    /\ phase' = "returned"
    /\ UNCHANGED <<src, job, wire, rerr, mres, esc, rt, cc, er, run>>

NextAccess == AccessPost \/ AccessReturn

SpecAccess == InitAccess /\ [][NextAccess]_vars

(***************************************************************************)
(* One call of Unmarshal taken step by step on a finite document.  The     *)
(* goroutine that runs it is not held up for ever: a step that can be      *)
(* taken is taken.                                                         *)
(***************************************************************************)
RunDocs ==
    WholeDocs \cup CutDocs \cup EnvelopeDocs \cup NestDocs
    \cup { Resp(Param(Val(Hello)) \o Blank \o Param(Hello \o Val(<<CommentTok>> \o Int1))),
           Resp(Param(Val(Struct(Member(Key1, Array(Val(Int1) \o Val(<<>>)))
                                 \o Member(Key1, Hello))))),
           Resp(Param(Val(<<StartTok("int"), StartTok("x"), EndTok("x"), TextTok(<<"5">>),
                            EndTok("int")>>))),
           Resp(X \o Param(Val(Int1))),
           <<StartTok("methodResponse"), StartTok("params"), StartTok("param"),
             StartTok("params"), EndTok("params"), EndTok("param")>> }

InitRun ==
    /\ phase = "idle" /\ src = "none" /\ job = NoJob /\ wire = <<>> /\ rerr = ErrEOF
    /\ mres = NoMarshal
    /\ ures = NoUnmarshal
    /\ esc = NoEscape
    /\ rt = NoTorrents
    /\ cc = NoConc
    /\ er = NoErrs
    /\ ac = NoAccess
    /\ run \in {[kind |-> "steps", doc |-> d, c |-> UnmarshalEnter(newParser(e)).c,
                  st |-> UnmarshalEnter(newParser(e)).st] :
                 d \in RunDocs, e \in {ErrEOF, ErrIO}}

\* the next step of the call
RunStep ==
    /\ run.kind = "steps" /\ ~run.c.done
    /\ \E r \in {StepOf(run.doc, run.c, run.st)} : run' = [run EXCEPT !.c = r.c, !.st = r.st]
    /\ UNCHANGED <<phase, src, job, wire, rerr, mres, ures, esc, rt, cc, er, ac>>

NextRun == RunStep

SpecRun == InitRun /\ [][NextRun]_vars

FairRun == SpecRun /\ WF_vars(NextRun)

(***************************************************************************)
(* The claims                                                              *)
(***************************************************************************)
Decoded == phase = "decoded"
Marshalled == src = "call" /\ phase # "start"
FromCall == src = "call" /\ job.left = -1
OneArg == FromCall /\ Len(job.args) = 1

\* built from booleans, 32-bit integers, strings, byte blobs, arrays and maps
RECURSIVE IsPlain(_)
IsPlain(v) ==
    CASE v.k \in {"bool", "str", "bytes"} -> TRUE
      [] v.k = "int" -> InRange(v.i, 32)
      [] v.k = "arr" -> \A i \in 1..Len(v.a) : IsPlain(v.a[i])
      [] v.k = "map" -> \A key \in DOMAIN v.m : IsPlain(v.m[key])
      [] OTHER -> FALSE

PlainJob == FromCall /\ \A i \in 1..Len(job.args) : IsPlain(job.args[i])

\* C1, as claimed: for every method name and every list of arguments built from
\* booleans, 32-bit integers, strings, byte blobs, arrays and string-keyed maps,
\* Marshal succeeds and Unmarshal of its output returns a nil error, a nil
\* fault, the method name and the arguments, in order.
C1_RoundTrip ==
    PlainJob =>
        /\ phase \notin {"failed", "panicked"}
        /\ Decoded => /\ ures.e = NilErr
                      /\ ures.fault = NoFault
                      /\ ures.name = job.name
                      /\ ures.params = job.args

IsFaultJob == FromCall /\ job.name = <<>> /\ Len(job.args) = 1 /\ job.args[1].k = "fault"

\* C2, as claimed: for every integer code and every message, Unmarshal of the
\* output of Marshal(w, "", Fault{code, message}) returns a nil error, a Fault
\* with that code and message, and no parameters.
C2_FaultRoundTrip ==
    IsFaultJob =>
        /\ phase \notin {"failed", "panicked"}
        /\ Decoded => /\ ures.e = NilErr
                      /\ ures.fault = job.args[1]
                      /\ ures.params = <<>>

ConversionErrors == {ErrNumSyntax, ErrNumRange, ErrTime, ErrBase64}

\* the document holds one parameter, the simple element <tag>body</tag>
IsLeafDoc(tag, body) ==
    /\ src = "doc"
    /\ wire \in {Resp(Param(Val(Elem(tag, body)))), Resp(Param(Elem(tag, body)))}

\* C3, as claimed: a simple element whose text does not parse under its type
\* makes Unmarshal fail with the conversion error of that element, not with a
\* structural error, and no value is returned as a parameter in its place.
C3_ConversionError ==
    \A tag \in SimpleTags, body \in LeafBodies :
        LET x == XmlText(body) IN
        (Decoded /\ IsLeafDoc(tag, body) /\ x.ok /\ ParseSimple(tag, x.s).e # NilErr)
            => /\ ures.e = ParseSimple(tag, x.s).e
               /\ ures.e \in ConversionErrors
               /\ ures.params = <<>>

\* the number of <param> elements of a document
ParamCount(doc) == Cardinality({i \in 1..Len(doc) : doc[i] = StartTok("param")})

\* C4, as claimed: when Unmarshal returns a nil error and no fault, every
\* <param> gave one decoded value, nothing inside the envelope was passed over
\* (no element, no character data that is not white space), and no parameter
\* is a nil made of a <value> or <param> that holds bare text or nothing.
C4_NothingDropped ==
    (Decoded /\ src = "doc" /\ ures.e = NilErr /\ ures.fault = NoFault)
        => /\ Len(ures.params) = ParamCount(wire)
           /\ ~ures.st.dropped
           /\ \A i \in 1..Len(ures.params) : ures.params[i] # VNil

IsFaultLike(v) == v.k \in {"fault", "pfault", "error"}

\* the Fault a fault-like value stands for
FaultOf(v) == IF v.k = "error" THEN [code |-> MinusOne, msg |-> v.s] ELSE v.f

FaultFirst == FromCall /\ job.name = <<>> /\ Len(job.args) > 0 /\ IsFaultLike(job.args[1])

FaultEnvelope(f) ==
    <<StartTok("methodResponse")>> \o FaultXML(f) \o <<TextTok(<<LF>>), EndTok("methodResponse")>>

\* C5: Marshal with an empty method name and a fault-like first argument
\* writes the methodResponse envelope with that one fault and returns nil,
\* whatever the other arguments are.
C5_FaultFirst ==
    (FaultFirst /\ phase # "start")
        => /\ mres = NoMarshal
           /\ phase \in {"written", "decoded"}
           /\ wire = FaultEnvelope(FaultOf(job.args[1]))
           /\ Cardinality({i \in 1..Len(wire) : wire[i] = StartTok("fault")}) = 1
           /\ \A i \in 1..Len(wire) : wire[i] \notin {StartTok("params"), StartTok("param")}

\* C5's case: a fault-like first argument followed by an argument of an
\* unsupported type
C5_Witness ==
    /\ FaultFirst /\ phase = "written"
    /\ \E i \in 2..Len(job.args) : job.args[i].k = "func"

\* C6, as claimed: in every output of Marshal a <fault> element is the only
\* child of <methodResponse>, and never stands inside <params>.
C6_FaultOnlyInEnvelope ==
    (Marshalled /\ job.left = -1)
        => \A i \in 1..Len(wire) :
              wire[i] = StartTok("fault") => (i = 2 /\ wire[1] = StartTok("methodResponse"))

NoWireForm == {"func", "chan", "ptr", "nilptr", "unsafeptr", "nil"}

\* C7, as claimed: Marshal given a function, a channel, a pointer or a nil
\* value does not panic and returns an error that ErrEq matches with
\* ErrUnsupported.
C7_UnsupportedNoPanic ==
    (OneArg /\ job.args[1].k \in NoWireForm /\ phase # "start")
        => ~mres.panic /\ ErrEq(mres.e, ErrUnsupported)

\* C8, as claimed: every signed 64-bit integer survives the round trip.
C8_Int64RoundTrip ==
    (OneArg /\ job.args[1].k = "int" /\ InRange(job.args[1].i, 64))
        => /\ phase \notin {"failed", "panicked"}
           /\ Decoded => (ures.e = NilErr /\ ures.params = job.args)

IsGetName == src = "call" /\ job = Job(GetName, <<>>, -1)

\* C9, as claimed: Marshal(w, "get_name") writes
\* <methodCall><methodName>get_name</methodName><params>, one line feed,
\* </params></methodCall> and nothing else, and returns nil.
C9_Original ==
    (IsGetName /\ phase # "start")
        => /\ mres = NoMarshal
           /\ wire = <<StartTok("methodCall"), StartTok("methodName"), TextTok(GetName),
                       EndTok("methodName"), StartTok("params"), TextTok(<<LF>>),
                       EndTok("params"), EndTok("methodCall")>>

\* C9, amended: Marshal(w, "get_name") writes
\* <methodCall><methodName>get_name</methodName>, one line feed, <params>, one
\* line feed, </params></methodCall> and nothing else, and returns nil.
C9_GetNameEnvelope ==
    (IsGetName /\ phase # "start")
        => /\ mres = NoMarshal
           /\ wire = <<StartTok("methodCall"), StartTok("methodName"), TextTok(GetName),
                       EndTok("methodName"), TextTok(<<LF>>), StartTok("params"),
                       TextTok(<<LF>>), EndTok("params"), EndTok("methodCall")>>

C9_Witness == IsGetName /\ phase = "written"

\* C10, as claimed: true is written as <boolean>1</boolean> and false as
\* <boolean>0</boolean>, and a <boolean> is decoded only when its body is 0 or 1.
C10_BooleanLiterals ==
    /\ (OneArg /\ job.args[1].k = "bool" /\ phase # "start")
          => \E i \in 1..Len(wire) - 2 :
                SubSeq(wire, i, i + 2)
                    = Elem("boolean", IF job.args[1].b THEN <<"1">> ELSE <<"0">>)
    /\ \A body \in LeafBodies :
          (Decoded /\ IsLeafDoc("boolean", body))
              => (ures.e = NilErr <=> body \in {<<"0">>, <<"1">>})

\* what a fault document says: its value is a struct whose members all decode,
\* the last faultCode member is an integer, the last faultString member is a
\* string, and the next element after the value is </fault>
SaysFault(c) ==
    /\ c.struct
    /\ \A j \in 1..Len(c.ms) : c.ms[j].ty # "bad"
    /\ \E m \in LastNamed(c.ms, FaultCodeName) : m.ty = "int"
    /\ \E m \in LastNamed(c.ms, FaultStringName) : m.ty = "str"
    /\ c.closed

SaidFault(c) ==
    VFault((CHOOSE m \in LastNamed(c.ms, FaultCodeName) : TRUE).i,
           (CHOOSE m \in LastNamed(c.ms, FaultStringName) : TRUE).body)

\* C11: with <fault> in place of <params>, Unmarshal returns a nil error exactly
\* when the fault's value is a struct with an integer faultCode and a string
\* faultString followed by </fault>, and then returns the Fault with that code
\* and message and no parameters; in every other case the error is not nil.
C11_FaultDecoding ==
    Decoded =>
        \A c \in FaultCases : wire = c.doc =>
            /\ (ures.e = NilErr) <=> SaysFault(c)
            /\ SaysFault(c) => ures.fault = SaidFault(c) /\ ures.params = <<>>

C11_Witness ==
    /\ Decoded
    /\ \E c \in FaultCases :
          /\ wire = c.doc /\ SaysFault(c) /\ Len(c.ms) = 2
          /\ c.ms[1].n = FaultStringName
          /\ c.doc[Len(c.doc)] = EndTok("methodResponse")
    /\ ures.fault = VFault(PosInt(<<7>>), Bad)
    /\ ures.e = NilErr

MemberNames(ms) == {ms[j].n : j \in 1..Len(ms)}

\* the members ms in another order
Reordered(ms) ==
    {[doc |-> Resp(Param(Val(StructXML([j \in 1..Len(ms) |-> ms[p[j]]])))),
      ms |-> [j \in 1..Len(ms) |-> ms[p[j]]]] :
        p \in {q \in [1..Len(ms) -> 1..Len(ms)] : \A a, b \in 1..Len(ms) : a # b => q[a] # q[b]}}

\* C12: a decoded <struct> is a map whose keys are exactly the member names of
\* the document, a repeated name has the value of its last occurrence, and the
\* same members with distinct names in another order decode to the same map.
C12_StructMap ==
    Decoded =>
        \A c \in StructCases : wire = c.doc =>
            /\ ures.e = NilErr
            /\ Len(ures.params) = 1
            /\ ures.params[1].k = "map"
            /\ DOMAIN ures.params[1].m = MemberNames(c.ms)
            /\ \A n \in MemberNames(c.ms) :
                  \A m \in LastNamed(c.ms, n) : ures.params[1].m[n] = m.v
            /\ Cardinality(MemberNames(c.ms)) = Len(c.ms) =>
                  \A d \in Reordered(c.ms) : Unmarshal(d.doc, ErrEOF).params = ures.params

\* a struct with a repeated name whose occurrences differ, decoded
C12_Witness ==
    /\ Decoded
    /\ \E c \in StructCases :
          /\ wire = c.doc /\ Len(c.ms) = 2
          /\ c.ms[1].n = c.ms[2].n /\ c.ms[1].v # c.ms[2].v
    /\ ures.e = NilErr
    /\ Len(ures.params) = 1 /\ ures.params[1].k = "map"

\* C13: a decoded <array> has one entry for every <value> child of its <data>,
\* in document order, whatever its length (none included) and whether it is
\* the parameter itself or nested in an array or a struct.
C13_ArrayOrder ==
    Decoded =>
        \A c \in ArrayCases : wire = c.doc =>
            ures.e = NilErr /\ ures.params = <<c.want>>

\* an array of three different entries, decoded
C13_Witness ==
    /\ Decoded
    /\ \E c \in ArrayCases :
          /\ wire = c.doc /\ Len(c.items) = 3 /\ c.want.k = "arr"
          /\ c.items[1].v # c.items[2].v /\ c.items[2].v # c.items[3].v
          /\ c.items[1].v # c.items[3].v
    /\ ures.e = NilErr
    /\ Len(ures.params) = 1 /\ ures.params[1].k = "arr" /\ Len(ures.params[1].a) = 3

\* Integer bodies with what they say: [body, number, fits32, fits64, val].  number
\* tells whether the body is a decimal number (an optional sign, then digits
\* only), fits32 and fits64 whether the number lies in [-2^31, 2^31-1] and in
\* [-2^63, 2^63-1], val the number.
IntCase(body, number, fits32, fits64, val) ==
    [body |-> body, number |-> number, fits32 |-> fits32, fits64 |-> fits64, val |-> val]

IntCases ==
    { IntCase(<<"0">>, TRUE, TRUE, TRUE,
              MkInt(FALSE, <<>>)),
      IntCase(<<"7">>, TRUE, TRUE, TRUE,
              MkInt(FALSE, <<7>>)),
      IntCase(<<"+", "7">>, TRUE, TRUE, TRUE,
              MkInt(FALSE, <<7>>)),
      IntCase(<<"-", "1">>, TRUE, TRUE, TRUE,
              MkInt(TRUE, <<1>>)),
      IntCase(<<"0", "0", "7">>, TRUE, TRUE, TRUE,
              MkInt(FALSE, <<7>>)),
      IntCase(<<"2", "1", "4", "7", "4", "8", "3", "6", "4", "7">>, TRUE, TRUE, TRUE,
              MkInt(FALSE, <<2, 1, 4, 7, 4, 8, 3, 6, 4, 7>>)),
      IntCase(<<"2", "1", "4", "7", "4", "8", "3", "6", "4", "8">>, TRUE, FALSE, TRUE,
              MkInt(FALSE, <<2, 1, 4, 7, 4, 8, 3, 6, 4, 8>>)),
      IntCase(<<"-", "2", "1", "4", "7", "4", "8", "3", "6", "4", "8">>, TRUE, TRUE, TRUE,
              MkInt(TRUE, <<2, 1, 4, 7, 4, 8, 3, 6, 4, 8>>)),
      IntCase(<<"-", "2", "1", "4", "7", "4", "8", "3", "6", "4", "9">>, TRUE, FALSE, TRUE,
              MkInt(TRUE, <<2, 1, 4, 7, 4, 8, 3, 6, 4, 9>>)),
      IntCase(<<"9", "2", "2", "3", "3", "7", "2", "0", "3", "6", "8", "5", "4", "7", "7", "5", "8", "0", "7">>, TRUE, FALSE, TRUE,
              MkInt(FALSE, <<9, 2, 2, 3, 3, 7, 2, 0, 3, 6, 8, 5, 4, 7, 7, 5, 8, 0, 7>>)),
      IntCase(<<"9", "2", "2", "3", "3", "7", "2", "0", "3", "6", "8", "5", "4", "7", "7", "5", "8", "0", "8">>, TRUE, FALSE, FALSE,
              MkInt(FALSE, <<9, 2, 2, 3, 3, 7, 2, 0, 3, 6, 8, 5, 4, 7, 7, 5, 8, 0, 8>>)),
      IntCase(<<"-", "9", "2", "2", "3", "3", "7", "2", "0", "3", "6", "8", "5", "4", "7", "7", "5", "8", "0", "8">>, TRUE, FALSE, TRUE,
              MkInt(TRUE, <<9, 2, 2, 3, 3, 7, 2, 0, 3, 6, 8, 5, 4, 7, 7, 5, 8, 0, 8>>)),
      IntCase(<<"-", "9", "2", "2", "3", "3", "7", "2", "0", "3", "6", "8", "5", "4", "7", "7", "5", "8", "0", "9">>, TRUE, FALSE, FALSE,
              MkInt(TRUE, <<9, 2, 2, 3, 3, 7, 2, 0, 3, 6, 8, 5, 4, 7, 7, 5, 8, 0, 9>>)),
      IntCase(<<>>, FALSE, FALSE, FALSE, Zero),
      IntCase(<<"a", "b", "c">>, FALSE, FALSE, FALSE, Zero),
      IntCase(<<" ", "5">>, FALSE, FALSE, FALSE, Zero),
      IntCase(<<"1", ".", "5">>, FALSE, FALSE, FALSE, Zero),
      IntCase(<<"t", "r", "u", "e">>, FALSE, FALSE, FALSE, Zero) }

IntTags32 == {"int", "i1", "i2", "i4"}

\* C18: <int>, <i1>, <i2> and <i4> decode without error exactly when the body is
\* a decimal number in [-2^31, 2^31-1], <i8> exactly when it is one in
\* [-2^63, 2^63-1], and the value is then that number (in an int of 64 bits).
C18_IntegerRange ==
    Decoded =>
        \A c \in IntCases :
            /\ \A tag \in IntTags32 : IsLeafDoc(tag, c.body) =>
                  /\ (ures.e = NilErr) <=> (c.number /\ c.fits32)
                  /\ ures.e = NilErr => ures.params = <<VInt(c.val)>>
            /\ IsLeafDoc("i8", c.body) =>
                  /\ (ures.e = NilErr) <=> (c.number /\ c.fits64)
                  /\ ures.e = NilErr => ures.params = <<VInt(c.val)>>

\* 2^31 read from an <i8> and refused in an <int>; here the <i8>
C18_Witness ==
    /\ Decoded
    /\ \E c \in IntCases : c.number /\ ~c.fits32 /\ c.fits64 /\ ~c.val.neg /\ IsLeafDoc("i8", c.body)
    /\ ures.e = NilErr
    /\ Len(ures.params) = 1 /\ ures.params[1].k = "int"

\* the names required inside parseValue and inside the param loop
InnerNames == {"param", "value", "struct", "member", "array", "data"}

\* C20: in the repetitions (members of a struct, values of an array, params) the
\* token that is no start element ends the repetition without an error: the
\* well-formed documents of every number of repetitions decode with a nil
\* error; and an errNameMismatch or errNotEndElement from a token required
\* inside parseValue or inside the param loop leaves Unmarshal with an error.
C20_ParseErrors ==
    Decoded =>
        /\ \A c \in StructCases \cup ArrayCases : wire = c.doc => ures.e = NilErr
        /\ \A c \in ParamCases :
              wire = c.doc => ures.e = NilErr /\ Len(ures.params) = c.n
        /\ ures.st.hard \cap InnerNames # {} => ures.e # NilErr

\* a struct whose second member is another element: the member loop is ended
\* by errNameMismatch
C20_Witness ==
    /\ Decoded
    /\ wire = Resp(Param(Val(Struct(Member(Key1, Int1) \o X))))
    /\ "member" \in ures.st.hard
    /\ ures.e # NilErr

\* the bytes of an output, tag by tag and character by character
Flat(toks) ==
    Concat([j \in 1..Len(toks) |->
        CASE toks[j].k = "start" -> <<"<", toks[j].n, ">">>
          [] toks[j].k = "end" -> <<"</", toks[j].n, ">">>
          [] toks[j].k \in {"text", "cut"} -> toks[j].s
          [] OTHER -> <<>>])

\* v is, or holds, a value of a kind WriteXML answers with ErrUnsupported
RECURSIVE HasUnsupported(_)
HasUnsupported(v) ==
    CASE v.k \in {"uintptr", "complex", "chan", "func"} -> TRUE
      [] v.k = "arr" -> \E j \in 1..Len(v.a) : HasUnsupported(v.a[j])
      [] v.k = "map" -> \E key \in DOMAIN v.m : HasUnsupported(v.m[key])
      [] v.k = "ptr" -> HasUnsupported(v.p)
      [] v.k = "struct" ->
            \E j \in 1..Len(v.fields) :
                ~IsUnexported(v.fields[j].name) /\ HasUnsupported(v.fields[j].val)
      [] OTHER -> FALSE

ParamStarts(toks) == Cardinality({j \in 1..Len(toks) : toks[j] = StartTok("param")})

ClosesEnvelope(toks) ==
    \E j \in 1..Len(toks) : toks[j] \in {EndTok("methodResponse"), EndTok("methodCall")}

\* C14: when Marshal returns an error, it is the first one met (ErrUnsupported
\* with no Write failed before it, or the error of the first failed Write), no
\* Write is asked for after a failed one, no closing tag of the envelope is on
\* the stream, the stream holds the beginning of the whole output and ends
\* where the failure was: for ErrUnsupported at the <value> opened for the
\* value refused, inside the first argument that holds such a value.
C14_FirstError ==
    phase = "failed" =>
        /\ mres.after = 0
        /\ ~ClosesEnvelope(wire)
        /\ \E ord \in KeyOrders :
              IsPrefix(Flat(wire), Flat(Marshal(NewWriter(-1), job.name, job.args, ord).w.out))
        /\ \/ /\ mres.e = ErrWrite /\ mres.failed
              /\ job.left >= 0
           \/ /\ ErrEq(mres.e, ErrUnsupported) /\ ~mres.failed
              /\ wire[Len(wire)] = StartTok("value")
              /\ HasUnsupported(job.args[ParamStarts(wire)])
              /\ \A j \in 1..(ParamStarts(wire) - 1) : ~HasUnsupported(job.args[j])

\* a refused value in the second of three arguments
C14_Witness ==
    /\ phase = "failed"
    /\ job.args = <<VBool(TRUE), [k |-> "func"], VBool(TRUE)>>
    /\ job.left = -1
    /\ ErrEq(mres.e, ErrUnsupported)

\* C15: when a read of the input stream fails with an error that is not io.EOF
\* during Unmarshal, Unmarshal returns that error and the stream is not read
\* again.
C15_ReadError ==
    Decoded /\ ures.st.failed => ures.e = rerr /\ ures.st.late = 0

\* the stream fails inside the second parameter, after one was decoded
C15_Witness ==
    /\ Decoded
    /\ rerr = ErrIO
    /\ ures.st.failed
    /\ Len(ures.params) = 1
    /\ ures.e = ErrIO

\* the five reserved characters with their entities
Reserved == {"<", ">", "\"", "'", "&"}

EntityOf(c) ==
    CASE c = "<" -> <<"&", "l", "t", ";">>
      [] c = ">" -> <<"&", "g", "t", ";">>
      [] c = "\"" -> <<"&", "q", "u", "o", "t", ";">>
      [] c = "'" -> <<"&", "a", "p", "o", "s", ";">>
      [] c = "&" -> <<"&", "a", "m", "p", ";">>

\* the five entities replaced back, from left to right
RECURSIVE Unescape(_)
Unescape(s) ==
    IF s = <<>> THEN <<>>
    ELSE IF \E c \in Reserved : IsPrefix(EntityOf(c), s)
    THEN LET c == CHOOSE x \in Reserved : IsPrefix(EntityOf(x), s)
         IN  <<c>> \o Unescape(Drop(s, Len(EntityOf(c))))
    ELSE <<Head(s)>> \o Unescape(Tail(s))

\* C17: xmlEscape writes the entity for each of < > " ' & and every other byte
\* as it is; its output holds none of < > " ', holds & only at the start of
\* one of the five entities, and gives the input back when the entities are
\* replaced.
C17_Escape ==
    esc.done =>
        /\ esc.out = Concat([j \in 1..Len(esc.in) |->
                                IF esc.in[j] \in Reserved THEN EntityOf(esc.in[j])
                                ELSE <<esc.in[j]>>])
        /\ \A j \in 1..Len(esc.out) :
              /\ esc.out[j] \notin {"<", ">", "\"", "'"}
              /\ esc.out[j] = "&" =>
                    \E c \in Reserved : IsPrefix(EntityOf(c), Drop(esc.out, j - 1))
        /\ Unescape(esc.out) = esc.in

\* the text of an entity and every kind of character, escaped
C17_Witness ==
    /\ esc.done
    /\ esc.in = <<"a", "&", "a", "p", "o", "s", ";", "'">>
    /\ esc.out # esc.in

\* the field queries of the claim, in its order
ClaimedQueries ==
    << <<"d", ".", "n", "a", "m", "e", "=">>,
       <<"d", ".", "s", "i", "z", "e", "_", "b", "y", "t", "e", "s", "=">>,
       <<"d", ".", "h", "a", "s", "h", "=">>,
       <<"d", ".", "c", "u", "s", "t", "o", "m", "1", "=">>,
       <<"d", ".", "b", "a", "s", "e", "_", "p", "a", "t", "h", "=">>,
       <<"d", ".", "i", "s", "_", "a", "c", "t", "i", "v", "e", "=">>,
       <<"d", ".", "c", "o", "m", "p", "l", "e", "t", "e", "=">>,
       <<"d", ".", "r", "a", "t", "i", "o", "=">> >>

\* the torrent a row of the server stands for, by the positions of the claim
ClaimedTorrent(t, row) ==
    /\ t.Name = <<"n", row.i>>
    /\ t.Size = PosInt(<<DigitOf(row.i)>>)
    /\ t.Hash = <<"h", row.i>>
    /\ t.Label = <<"l", row.i>>
    /\ t.Path = <<"p", row.i>>
    /\ t.Completed <=> row.complete \in {PosInt(<<1>>), PosInt(<<2>>)}

\* C19, as claimed: GetTorrents sends, after the target and the view, d.name=,
\* d.size_bytes=, d.hash=, d.custom1=, d.base_path=, d.is_active=, d.complete=,
\* d.ratio= in this order, and returns one Torrent for every row of the answer,
\* in the order of the rows: Name from column 0, Size from column 1, Hash from
\* column 2, Label from column 3, Path from column 4, Completed exactly when
\* column 6 is greater than zero.
C19_GetTorrents ==
    /\ src = "torrents" /\ phase \in {"posted", "returned"} =>
          /\ job.name = MultiCall2
          /\ job.args = <<VStr(<<>>), VStr(rt.view)>>
                         \o [j \in 1..Len(ClaimedQueries) |-> VStr(ClaimedQueries[j])]
    /\ src = "torrents" /\ phase = "returned" /\ ~rt.failed /\ ~rt.panic =>
          /\ Len(rt.torrents) = Len(rt.answer.rows)
          /\ \A j \in 1..Len(rt.torrents) : ClaimedTorrent(rt.torrents[j], rt.answer.rows[j])

\* the part of C19 on the rows of the answer, which the code keeps
C19_RowsByPosition ==
    src = "torrents" /\ phase = "returned" /\ ~rt.failed /\ ~rt.panic =>
        /\ Len(rt.torrents) = Len(rt.answer.rows)
        /\ \A j \in 1..Len(rt.torrents) : ClaimedTorrent(rt.torrents[j], rt.answer.rows[j])


Calls == ures.st.trace

TypeMismatch(e) == ErrEq(e, errNotStartElement) \/ ErrEq(e, errNotEndElement)

NameMismatch(e) == ErrEq(e, errNameMismatch)

\* call i left its token in the slot and call i+1, when there is one, was
\* given that token
KeptForNext(i) ==
    /\ Calls[i].left = Calls[i].t
    /\ Calls[i].t # NoTok
    /\ i < Len(Calls) =>
          /\ Calls[i + 1].had = Calls[i].t
          /\ Calls[i + 1].t = Calls[i].t

\* C21 as stated: a token that has been read but does not match the current
\* rule, by its token type or by its element name, is kept in the pushback
\* and is the token the read of the next rule receives.
C21_Original ==
    Decoded =>
        \A i \in 1..Len(Calls) :
            TypeMismatch(Calls[i].e) \/ NameMismatch(Calls[i].e) => KeptForNext(i)

\* C21, amended: a token of the wrong token type for the current rule is kept
\* in the pushback and is the token the read of the next rule receives; an
\* element of the required type with another name is consumed, the slot is
\* left empty and the next read takes a new token from the stream.
C21_TypeMismatchKept ==
    Decoded =>
        \A i \in 1..Len(Calls) :
            /\ TypeMismatch(Calls[i].e) => KeptForNext(i)
            /\ NameMismatch(Calls[i].e) =>
                  /\ Calls[i].left = NoTok
                  /\ i < Len(Calls) =>
                        /\ Calls[i + 1].had = NoTok
                        /\ Calls[i + 1].t # NoTok => Calls[i + 1].reads > 0

\* the end of an empty <params> is met where a <param> is looked for and is
\* then accepted as the end of <params>; the <methodCall> met first was
\* consumed by the name mismatch
C21_Witness ==
    /\ Decoded
    /\ ures.e = NilErr
    /\ \E i \in 1..(Len(Calls) - 1) :
          /\ TypeMismatch(Calls[i].e)
          /\ Calls[i].t = EndTok("params")
          /\ Calls[i + 1].e = NilErr
    /\ \E i \in 1..(Len(Calls) - 1) :
          /\ NameMismatch(Calls[i].e)
          /\ Calls[i].t = StartTok("methodCall")


\* C22: the pushback holds at most one token. A call of state.token that
\* finds it filled takes that token without a read of the stream, and the
\* slot is empty afterwards unless the same call puts the token back; between
\* two calls the slot is left alone, it is never written or emptied while it
\* holds a token, a successful read leaves it empty (so no token is delivered
\* to two successful reads) and a decode that succeeds leaves no token in it.
C22_Pushback ==
    Decoded =>
        /\ \A i \in 1..Len(Calls) :
              /\ Calls[i].had # NoTok =>
                    /\ Calls[i].reads = 0
                    /\ Calls[i].t = Calls[i].had
              /\ Calls[i].left \in {NoTok, Calls[i].t}
              /\ Calls[i].left # NoTok => TypeMismatch(Calls[i].e)
              /\ Calls[i].e = NilErr => Calls[i].left = NoTok
              /\ Calls[i].had = (IF i = 1 THEN NoTok ELSE Calls[i - 1].left)
        /\ ~ures.st.lost
        /\ ures.st.last = (IF Calls = <<>> THEN NoTok ELSE Calls[Len(Calls)].left)
        /\ ures.e = NilErr => ures.st.last = NoTok

\* the </param> of <param></param> is pushed back by the getStart of
\* parseValue and taken, with no read, by checkLast("param")
C22_Witness ==
    /\ Decoded
    /\ ures.e = NilErr
    /\ \E i \in 2..Len(Calls) :
          /\ Calls[i].had = EndTok("param")
          /\ Calls[i].reads = 0
          /\ Calls[i].e = NilErr
          /\ Calls[i].typ = tokStop
          /\ Calls[i - 1].typ = tokStart


\* C24: the names of the text elements are enforced: where <methodName> or
\* the <name> of a member is required, a start element with another name gives
\* the name-mismatch error.
C24_TextNames ==
    Decoded =>
        \A i \in 1..Len(Calls) :
            /\ Calls[i].typ = tokText
            /\ Calls[i].t # NoTok
            /\ Calls[i].t.k = "start"
            /\ Calls[i].t.n # Calls[i].name
            => NameMismatch(Calls[i].e)


\* a fault was decoded: the element after the root (and after the method
\* name, if there is one) was <fault>
OnFaultPath ==
    \E i \in 1..Len(Calls) :
        /\ Calls[i].typ = tokStart
        /\ Calls[i].name = "params"
        /\ Calls[i].t = StartTok("fault")

\* the root element of the document: its first start element
RootOf(doc) ==
    IF \E j \in 1..Len(doc) : doc[j].k = "start"
    THEN doc[CHOOSE j \in 1..Len(doc) :
                doc[j].k = "start" /\ \A l \in 1..(j - 1) : doc[l].k # "start"].n
    ELSE ""

\* a start element follows </fault>
MoreAfterFault(doc) ==
    \E j \in 1..(Len(doc) - 1) : doc[j] = EndTok("fault") /\ doc[j + 1].k = "start"

\* C26: when Unmarshal returns a nil error, on the params path and on the
\* fault path alike, the root element was methodResponse or methodCall and the
\* last thing read and checked was its matching end element; a document with
\* another root name, or with further elements after </fault> inside the
\* envelope, is rejected.
C26_Envelope ==
    Decoded /\ ures.e = NilErr =>
        /\ RootOf(wire) \in {"methodResponse", "methodCall"}
        /\ Calls # <<>>
        /\ Calls[Len(Calls)].typ = tokStop
        /\ Calls[Len(Calls)].t = EndTok(RootOf(wire))
        /\ ~(OnFaultPath /\ MoreAfterFault(wire))


\* C28: the fault and the error of Unmarshal exclude each other: a Fault
\* that is not nil comes with a nil error (the fault was decoded whole), and
\* with an error that is not nil the Fault is nil.
C28_FaultOrError ==
    Decoded => ~(ures.fault # NoFault /\ ures.e # NilErr)


\* the calls of parseValue that took a start element, in the order of their
\* returns
Values == ures.st.vals

\* C23: a call of parseValue that has taken a start element and returns
\* without error has taken the end element of the same name as well (of
\* <value>, <struct>, <array> and every leaf, and inside them of <member>,
\* <name> and <data>): as many elements are open at the return as at the
\* entry, the last token taken from the document is that end element and the
\* pushback is empty.  A document in which one of these end elements is left
\* out, or is followed first by an extra element, or has an extra element in
\* front of it where checkLast requires it, is not decoded without error.
C23_Balanced ==
    Decoded =>
        /\ \A i \in 1..Len(Values) :
              Values[i].e = NilErr =>
                  /\ Values[i].had = NoTok
                  /\ Values[i].last = NoTok
                  /\ Values[i].d1 = Values[i].d0
                  /\ Values[i].pos > 1
                  /\ wire[Values[i].pos - 1] = EndTok(Values[i].se.n)
        /\ wire \in MissingEndDocs \cup ExtraDocs => ures.e # NilErr

\* a struct inside <value>, with a member whose value is an <int>, is decoded
C23_Witness ==
    /\ Decoded
    /\ ures.e = NilErr
    /\ \E i \in 1..Len(Values) : Values[i].se = StartTok("int") /\ Values[i].e = NilErr
    /\ \E i \in 1..Len(Values) : Values[i].se = StartTok("struct") /\ Values[i].e = NilErr
    /\ \E i \in 1..Len(Values) : Values[i].se = StartTok("value") /\ Values[i].e = NilErr


\* C27: when the decoding of the value of a <param> has failed, Unmarshal
\* returns an error that is not nil, whatever tokens follow: the checks of
\* </params> and of the end of the envelope that come after the break never
\* both succeed.
C27_NotMasked ==
    Decoded /\ ures.st.broke => ures.e # NilErr

\* the value of the <param> failed and the check of </params> that follows
\* the break succeeded on the tokens that came next
C27_Witness ==
    /\ Decoded
    /\ ures.st.broke
    /\ \E i \in 1..Len(Calls) :
          Calls[i].typ = tokStop /\ Calls[i].name = "params" /\ Calls[i].e = NilErr
    /\ ures.e # NilErr


\* a sentinel, or a sentinel wrapped once
OfKind(x, s) == x = s \/ (x.wrap /\ x.main = s)

\* what C25 says of a call of ErrEq, with Wrappable(e) telling for which
\* errors e a wrap of e is said to match e, and Comparable(e) for which main
\* errors a comparison is said to be true
C25_Says(Wrappable(_), Comparable(_)) ==
    er.called =>
        LET a == er.eq.a
            b == er.eq.b
        IN  /\ a.wrap /\ a.main = b /\ Wrappable(b) => er.eq.v
            /\ b.wrap /\ b.main = a /\ Wrappable(a) => er.eq.v
            /\ a.wrap /\ b.wrap /\ a.main = b.main /\ Comparable(a.main) => er.eq.v
            /\ a = b /\ Comparable(MainOf(a)) => er.eq.v
            /\ er.eq.v = er.rev.v /\ er.eq.panic = er.rev.panic
            /\ \A s \in Sentinels, t \in Sentinels :
                  s # t /\ OfKind(a, s) /\ OfKind(b, t) => ~er.eq.v /\ ~er.eq.panic
            /\ a = NilErr /\ b \in Sentinels => ~er.eq.v /\ ~er.eq.panic

\* C25 as stated: for every error e and every message ErrEq(Errorf2(e, msg), e)
\* and ErrEq(e, Errorf2(e, msg)) are true and two wraps of the same e match;
\* ErrEq is reflexive and symmetric; two different sentinels, wrapped or not,
\* are never equal; ErrEq(nil, s) is false for every sentinel s.
C25_Original ==
    C25_Says(LAMBDA e : TRUE, LAMBDA e : TRUE)

\* C25, amended: the same for every error e that is not itself made by
\* Errorf2 and whose dynamic type can be compared; two wraps of the same e
\* match, and ErrEq(x, x) is true, whenever the main error compared has a
\* dynamic type that can be compared.
C25_WrappedOnce ==
    C25_Says(LAMBDA e : ~e.wrap /\ e \notin Uncomparable, LAMBDA e : e \notin Uncomparable)

\* a sentinel wrapped twice with different messages: the two wraps match
C25_Witness ==
    /\ er.called
    /\ er.eq.a.wrap /\ er.eq.b.wrap
    /\ er.eq.a # er.eq.b
    /\ er.eq.a.main = errNameMismatch /\ er.eq.b.main = errNameMismatch
    /\ er.eq.v


\* the Go type an accessor returns
Wanted(method) == IF method \in {"IP", "Name"} THEN "str" ELSE "int"

\* C30: IP, Name, DownTotal, UpTotal, DownRate and UpRate never panic: for
\* every result Client.Call can deliver, a response with no parameter or with
\* a first parameter of another type among them, they return the value of the
\* expected type with a nil error, or an error that is not nil.
C30_AccessorsNoPanic ==
    ac.kind = "access" /\ phase = "returned" =>
        /\ ~ac.out.panic
        /\ ac.out.failed \/ ac.out.v.k = Wanted(ac.method)


\* the calls of state.token the call taken step by step has made so far
RunCalls == run.st.trace

\* the start and end elements of a document
Elements(doc) == {j \in 1..Len(doc) : doc[j].k \in {"start", "end"}}

\* every call of state.token that has returned took its token from the
\* pushback or read the stream at least once, or returned the error of a
\* read; one that succeeded left nothing in the pushback; and no more calls
\* were made than two for each element of the document and two at its end
RunProgress ==
    run.kind = "steps" =>
        /\ \A i \in 1..Len(RunCalls) :
              /\ RunCalls[i].t # NoTok => RunCalls[i].had # NoTok \/ RunCalls[i].reads >= 1
              /\ RunCalls[i].t = NoTok => RunCalls[i].e # NilErr
              /\ RunCalls[i].e = NilErr => RunCalls[i].left = NoTok
        /\ Len(RunCalls) <= 2 * Cardinality(Elements(run.doc)) + 2

RunReturned == run.kind = "steps" /\ run.c.done

\* C29: on every finite document Unmarshal returns; every call of
\* state.token on the way, and so every round of the struct, array and param
\* loops, every call of parseValue and every turn of the loop that skips
\* tokens, takes a token from the stream or from the pushback, or ends with
\* the error of the read.
C29_Terminates ==
    []RunProgress /\ <>RunReturned

\* a document with a struct, an array and text between the elements has been
\* decoded to its end
C29_Witness ==
    /\ RunReturned
    /\ run.c.res.e = NilErr
    /\ \E i \in 1..Len(run.doc) : run.doc[i] = StartTok("array")
    /\ \E i \in 1..Len(run.doc) : run.doc[i] = StartTok("struct")
    /\ \E i \in 1..Len(run.doc) : run.doc[i].k = "text"
    /\ Len(RunCalls) > 10

=============================================================================
